---- MODULE Spec2Model ----
EXTENDS Integers, Sequences, FiniteSets, TLC

(***************************************************************************)
(* State.  calls is the history of the calls made to the library, oldest   *)
(* first, each with its arguments and its result.  IPV4_MAPPED_PREFIX is   *)
(* the one module-level array of utils.js, read by ipToBytes.              *)
(***************************************************************************)
VARIABLES calls, IPV4_MAPPED_PREFIX

(***************************************************************************)
(* Byte arithmetic.  A Uint8Array is a sequence of integers in 0..255;     *)
(* JavaScript index i is sequence index i + 1.                             *)
(***************************************************************************)
Pow2 == << 1, 2, 4, 8, 16, 32, 64, 128 >>

\* a ^ b on bytes, bit by bit
XorBits(a, b) ==
    LET bit(i) == ((a \div Pow2[i]) + (b \div Pow2[i])) % 2
    IN  bit(1) + 2 * bit(2) + 4 * bit(3) + 8 * bit(4)
        + 16 * bit(5) + 32 * bit(6) + 64 * bit(7) + 128 * bit(8)

\* an array of n elements F(0) .. F(n-1), built as an explicit tuple
NewArray(n, F(_)) == [i \in 1..n |-> F(i - 1)] \o << >>

\* the byte arrays (of any length) and the 16-byte blocks
ByteArray == Seq(0..255)
Block == [1..16 -> 0..255]

\* const x = v; F(x), for v in Dom: v is evaluated first and once, as the
\* argument of a function is, where an operator would take it unevaluated
Let(Dom, F(_), v) == [x \in Dom |-> F(x)][v]

\* for (i = from; i < to; i++) state = F(state, i), for from < to and
\* states in Dom: the first half of the range, then the second half on
\* its result
RECURSIVE Iterate(_, _, _, _, _)
Iterate(F(_, _), Dom, state, from, to) ==
    IF to = from + 1 THEN F(state, from)
    ELSE [half \in Dom |-> Iterate(F, Dom, half, (from + to) \div 2, to)]
             [Iterate(F, Dom, state, from, (from + to) \div 2)]

\* the same loop, kept as the sequence of the states after each iteration
RECURSIVE IterateTrace(_, _, _, _, _)
IterateTrace(F(_, _), Dom, state, from, to) ==
    IF to = from + 1 THEN << F(state, from) >>
    ELSE [first \in Seq(Dom) |->
             first \o IterateTrace(F, Dom, first[Len(first)], (from + to) \div 2, to)]
             [IterateTrace(F, Dom, state, from, (from + to) \div 2)]

Last(states) == states[Len(states)]

XorRow(a) == NewArray(256, LAMBDA b : XorBits(a, b))

XorTab == NewArray(256, XorRow)

Xor(a, b) == XorTab[a + 1][b + 1]

\* for (let i = 0; i < 16; i++) a[i] ^= b[i]
XorBytes ==
    [a \in Block, b \in Block |->
        << Xor(a[1], b[1]), Xor(a[2], b[2]), Xor(a[3], b[3]), Xor(a[4], b[4]),
           Xor(a[5], b[5]), Xor(a[6], b[6]), Xor(a[7], b[7]), Xor(a[8], b[8]),
           Xor(a[9], b[9]), Xor(a[10], b[10]), Xor(a[11], b[11]), Xor(a[12], b[12]),
           Xor(a[13], b[13]), Xor(a[14], b[14]), Xor(a[15], b[15]), Xor(a[16], b[16]) >>]

(***************************************************************************)
(* AES-128 primitive (core/aes.js): S-box, row rotation, column mixing,    *)
(* key expansion.  The primitives are functions on blocks.                 *)
(***************************************************************************)
SBOX == <<
    99, 124, 119, 123, 242, 107, 111, 197, 48, 1, 103, 43, 254, 215, 171, 118,
    202, 130, 201, 125, 250, 89, 71, 240, 173, 212, 162, 175, 156, 164, 114, 192,
    183, 253, 147, 38, 54, 63, 247, 204, 52, 165, 229, 241, 113, 216, 49, 21,
    4, 199, 35, 195, 24, 150, 5, 154, 7, 18, 128, 226, 235, 39, 178, 117,
    9, 131, 44, 26, 27, 110, 90, 160, 82, 59, 214, 179, 41, 227, 47, 132,
    83, 209, 0, 237, 32, 252, 177, 91, 106, 203, 190, 57, 74, 76, 88, 207,
    208, 239, 170, 251, 67, 77, 51, 133, 69, 249, 2, 127, 80, 60, 159, 168,
    81, 163, 64, 143, 146, 157, 56, 245, 188, 182, 218, 33, 16, 255, 243, 210,
    205, 12, 19, 236, 95, 151, 68, 23, 196, 167, 126, 61, 100, 93, 25, 115,
    96, 129, 79, 220, 34, 42, 144, 136, 70, 238, 184, 20, 222, 94, 11, 219,
    224, 50, 58, 10, 73, 6, 36, 92, 194, 211, 172, 98, 145, 149, 228, 121,
    231, 200, 55, 109, 141, 213, 78, 169, 108, 86, 244, 234, 101, 122, 174, 8,
    186, 120, 37, 46, 28, 166, 180, 198, 232, 221, 116, 31, 75, 189, 139, 138,
    112, 62, 181, 102, 72, 3, 246, 14, 97, 53, 87, 185, 134, 193, 29, 158,
    225, 248, 152, 17, 105, 217, 142, 148, 155, 30, 135, 233, 206, 85, 40, 223,
    140, 161, 137, 13, 191, 230, 66, 104, 65, 153, 45, 15, 176, 84, 187, 22 >>

INV_SBOX == <<
    82, 9, 106, 213, 48, 54, 165, 56, 191, 64, 163, 158, 129, 243, 215, 251,
    124, 227, 57, 130, 155, 47, 255, 135, 52, 142, 67, 68, 196, 222, 233, 203,
    84, 123, 148, 50, 166, 194, 35, 61, 238, 76, 149, 11, 66, 250, 195, 78,
    8, 46, 161, 102, 40, 217, 36, 178, 118, 91, 162, 73, 109, 139, 209, 37,
    114, 248, 246, 100, 134, 104, 152, 22, 212, 164, 92, 204, 93, 101, 182, 146,
    108, 112, 72, 80, 253, 237, 185, 218, 94, 21, 70, 87, 167, 141, 157, 132,
    144, 216, 171, 0, 140, 188, 211, 10, 247, 228, 88, 5, 184, 179, 69, 6,
    208, 44, 30, 143, 202, 63, 15, 2, 193, 175, 189, 3, 1, 19, 138, 107,
    58, 145, 17, 65, 79, 103, 220, 234, 151, 242, 207, 206, 240, 180, 230, 115,
    150, 172, 116, 34, 231, 173, 53, 133, 226, 249, 55, 232, 28, 117, 223, 110,
    71, 241, 26, 113, 29, 41, 197, 137, 111, 183, 98, 14, 170, 24, 190, 27,
    252, 86, 62, 75, 198, 210, 121, 32, 154, 219, 192, 254, 120, 205, 90, 244,
    31, 221, 168, 51, 136, 7, 199, 49, 177, 18, 16, 89, 39, 128, 236, 95,
    96, 81, 127, 169, 25, 181, 74, 13, 45, 229, 122, 159, 147, 201, 156, 239,
    160, 224, 59, 77, 174, 42, 245, 176, 200, 235, 187, 60, 131, 83, 153, 97,
    23, 43, 4, 126, 186, 119, 214, 38, 225, 105, 20, 99, 85, 33, 12, 125 >>

RCON == << 1, 2, 4, 8, 16, 32, 64, 128, 27, 54 >>

\* multiplication by x in GF(2^8) modulo x^8 + x^4 + x^3 + x + 1
XTime(a) == IF a >= 128 THEN XorBits((2 * a) % 256, 27) ELSE 2 * a

Mul2Tab == NewArray(256, XTime)
Mul3Tab == NewArray(256, LAMBDA a : XorBits(XTime(a), a))
Mul9Tab == NewArray(256, LAMBDA a : XorBits(XTime(XTime(XTime(a))), a))
Mul11Tab == NewArray(256, LAMBDA a : XorBits(XorBits(XTime(XTime(XTime(a))), XTime(a)), a))
Mul13Tab == NewArray(256, LAMBDA a : XorBits(XorBits(XTime(XTime(XTime(a))), XTime(XTime(a))), a))
Mul14Tab == NewArray(256, LAMBDA a : XorBits(XorBits(XTime(XTime(XTime(a))), XTime(XTime(a))), XTime(a)))
Mul2(a) == Mul2Tab[a + 1]
Mul3(a) == Mul3Tab[a + 1]
Mul9(a) == Mul9Tab[a + 1]
Mul11(a) == Mul11Tab[a + 1]
Mul13(a) == Mul13Tab[a + 1]
Mul14(a) == Mul14Tab[a + 1]

Sub(b, inverse) == IF inverse THEN INV_SBOX[b + 1] ELSE SBOX[b + 1]

subBytes ==
    [s \in Block, inverse \in BOOLEAN |->
        << Sub(s[1], inverse), Sub(s[2], inverse), Sub(s[3], inverse), Sub(s[4], inverse),
           Sub(s[5], inverse), Sub(s[6], inverse), Sub(s[7], inverse), Sub(s[8], inverse),
           Sub(s[9], inverse), Sub(s[10], inverse), Sub(s[11], inverse), Sub(s[12], inverse),
           Sub(s[13], inverse), Sub(s[14], inverse), Sub(s[15], inverse), Sub(s[16], inverse) >>]

\* state byte 4*c + r is row r of column c; row r is rotated by r columns
shiftRows ==
    [s \in Block, inverse \in BOOLEAN |->
        IF inverse
        THEN << s[1], s[14], s[11], s[8], s[5], s[2], s[15], s[12],
                s[9], s[6], s[3], s[16], s[13], s[10], s[7], s[4] >>
        ELSE << s[1], s[6], s[11], s[16], s[5], s[10], s[15], s[4],
                s[9], s[14], s[3], s[8], s[13], s[2], s[7], s[12] >>]

Xor4(a, b, c, d) == Xor(Xor(a, b), Xor(c, d))

MixColumn(a, b, c, d) ==
    << Xor4(Mul2(a), Mul3(b), c, d), Xor4(a, Mul2(b), Mul3(c), d),
       Xor4(a, b, Mul2(c), Mul3(d)), Xor4(Mul3(a), b, c, Mul2(d)) >>

InvMixColumn(a, b, c, d) ==
    << Xor4(Mul14(a), Mul11(b), Mul13(c), Mul9(d)),
       Xor4(Mul9(a), Mul14(b), Mul11(c), Mul13(d)),
       Xor4(Mul13(a), Mul9(b), Mul14(c), Mul11(d)),
       Xor4(Mul11(a), Mul13(b), Mul9(c), Mul14(d)) >>

mixColumns ==
    [s \in Block, inverse \in BOOLEAN |->
        IF inverse
        THEN InvMixColumn(s[1], s[2], s[3], s[4]) \o InvMixColumn(s[5], s[6], s[7], s[8])
             \o InvMixColumn(s[9], s[10], s[11], s[12]) \o InvMixColumn(s[13], s[14], s[15], s[16])
        ELSE MixColumn(s[1], s[2], s[3], s[4]) \o MixColumn(s[5], s[6], s[7], s[8])
             \o MixColumn(s[9], s[10], s[11], s[12]) \o MixColumn(s[13], s[14], s[15], s[16])]

\* a ^ b on 4-byte words
XorWord(a, b) == << Xor(a[1], b[1]), Xor(a[2], b[2]), Xor(a[3], b[3]), Xor(a[4], b[4]) >>

\* SubWord(RotWord(w)) ^ Rcon[r]
KeyCore(w, r) == << Xor(SBOX[w[2] + 1], RCON[r]), SBOX[w[3] + 1], SBOX[w[4] + 1], SBOX[w[1] + 1] >>

\* the schedule extended by one word: w[i] = w[i - 4] ^ temp, temp being
\* w[i - 1], passed through KeyCore when i is a multiple of 4
NextWord(expanded, i) ==
    expanded \o XorWord(SubSeq(expanded, 4 * (i - 4) + 1, 4 * (i - 4) + 4),
                        IF i % 4 = 0
                        THEN KeyCore(SubSeq(expanded, 4 * (i - 1) + 1, 4 * (i - 1) + 4), i \div 4)
                        ELSE SubSeq(expanded, 4 * (i - 1) + 1, 4 * (i - 1) + 4))

\* the 176-byte schedule: 44 words, the first four being the cipher key
expandKey(key) == Iterate(NextWord, ByteArray, key, 4, 44)

\* expandedKey[round * 16 + i], i = 0..15
RoundKey(expandedKey, round) == SubSeq(expandedKey, round * 16 + 1, round * 16 + 16)

(***************************************************************************)
(* Results of calls: a returned value, or the message of the thrown Error. *)
(***************************************************************************)
Ok(v) == [ok |-> TRUE, value |-> v]
Err(m) == [ok |-> FALSE, error |-> m]

\* const x = r; F(x), r being the result of a call: an Error thrown by the
\* call propagates to the caller
Try(r, F(_)) == IF r.ok THEN F(r.value) ELSE r

(***************************************************************************)
(* utils.js: text <-> 16-byte conversion.  JavaScript strings are TLA+     *)
(* strings; character i (from 0) of s is SubSeq(s, i + 1, i + 1).          *)
(***************************************************************************)
IPV6_GROUPS == 8
BYTES_LENGTH == 16

Char(s, i) == SubSeq(s, i, i)

Digits == "0123456789abcdef"

IsDecDigit(c) == c \in {"0", "1", "2", "3", "4", "5", "6", "7", "8", "9"}

\* value of a hexadecimal digit (either case), or -1
HexVal(c) ==
    CASE c = "0" -> 0 [] c = "1" -> 1 [] c = "2" -> 2 [] c = "3" -> 3
      [] c = "4" -> 4 [] c = "5" -> 5 [] c = "6" -> 6 [] c = "7" -> 7
      [] c = "8" -> 8 [] c = "9" -> 9
      [] c \in {"a", "A"} -> 10 [] c \in {"b", "B"} -> 11 [] c \in {"c", "C"} -> 12
      [] c \in {"d", "D"} -> 13 [] c \in {"e", "E"} -> 14 [] c \in {"f", "F"} -> 15
      [] OTHER -> -1

\* String.prototype.indexOf(pat, from): 1-based position of the first
\* occurrence at or after position from, 0 when there is none
RECURSIVE IndexFrom(_, _, _)
IndexFrom(s, pat, from) ==
    IF from + Len(pat) - 1 > Len(s) THEN 0
    ELSE IF SubSeq(s, from, from + Len(pat) - 1) = pat THEN from
    ELSE IndexFrom(s, pat, from + 1)

Includes(s, pat) == IndexFrom(s, pat, 1) # 0

\* String.prototype.split(sep) for a one-character separator
RECURSIVE Split(_, _)
Split(s, sep) ==
    LET at == IndexFrom(s, sep, 1)
    IN  IF at = 0 THEN << s >>
        ELSE << SubSeq(s, 1, at - 1) >> \o Split(SubSeq(s, at + 1, Len(s)), sep)

\* (s.match(/::/g) || []).length: non-overlapping matches, left to right
RECURSIVE CountDoubleColon(_)
CountDoubleColon(s) ==
    LET at == IndexFrom(s, "::", 1)
    IN  IF at = 0 THEN 0 ELSE 1 + CountDoubleColon(SubSeq(s, at + 2, Len(s)))

\* Array.prototype.join(sep) on strings
RECURSIVE Join(_, _)
Join(parts, sep) ==
    IF Len(parts) = 0 THEN ""
    ELSE IF Len(parts) = 1 THEN parts[1]
    ELSE parts[1] \o sep \o Join(Tail(parts), sep)

\* String.prototype.trim (space is the white space modelled)
RECURSIVE TrimLeft(_)
TrimLeft(s) == IF Len(s) > 0 /\ Char(s, 1) = " " THEN TrimLeft(Tail(s)) ELSE s
RECURSIVE TrimRight(_)
TrimRight(s) ==
    IF Len(s) > 0 /\ Char(s, Len(s)) = " " THEN TrimRight(SubSeq(s, 1, Len(s) - 1)) ELSE s
Trim(s) == TrimRight(TrimLeft(s))

\* the longest prefix of s made of digits of the radix, as a number; -1 when
\* that prefix is empty (NaN)
RECURSIVE DigitsPrefix(_, _, _, _)
DigitsPrefix(s, radix, acc, seen) ==
    LET d == IF Len(s) = 0 THEN -1 ELSE HexVal(Char(s, 1))
    IN  IF d < 0 \/ d >= radix THEN (IF seen THEN acc ELSE -1)
        ELSE DigitsPrefix(Tail(s), radix, acc * radix + d, TRUE)

\* parseInt(s, radix): leading white space, an optional sign, for radix 16 an
\* optional 0x, then the longest run of digits; what follows is ignored.
\* NaN is [nan |-> TRUE].
parseInt(str, radix) ==
    LET s0 == TrimLeft(str)
        neg == Len(s0) > 0 /\ Char(s0, 1) = "-"
        s1 == IF Len(s0) > 0 /\ Char(s0, 1) \in {"+", "-"} THEN Tail(s0) ELSE s0
        s2 == IF radix = 16 /\ Len(s1) >= 2 /\ SubSeq(s1, 1, 2) \in {"0x", "0X"}
              THEN SubSeq(s1, 3, Len(s1)) ELSE s1
        v == DigitsPrefix(s2, radix, 0, FALSE)
    IN  IF v < 0 THEN [nan |-> TRUE, n |-> 0]
        ELSE [nan |-> FALSE, n |-> IF neg THEN 0 - v ELSE v]

\* Number.prototype.toString(radix) for n >= 0
RECURSIVE toString(_, _)
toString(n, radix) ==
    IF n < radix THEN Char(Digits, n + 1)
    ELSE toString(n \div radix, radix) \o Char(Digits, (n % radix) + 1)

\* IPV4_REGEX = /^(\d{1,3}\.){3}\d{1,3}$/
IPV4_REGEX_test(ip) ==
    LET g == Split(ip, ".")
    IN  /\ Len(g) = 4
        /\ \A k \in 1..4 :
              /\ Len(g[k]) \in 1..3
              /\ \A j \in 1..Len(g[k]) : IsDecDigit(Char(g[k], j))

Repeat(v, n) == [k \in 1..n |-> v]

\* first index (from 1) of an empty string in parts, 0 when there is none
RECURSIVE IndexOfEmpty(_, _)
IndexOfEmpty(parts, from) ==
    IF from > Len(parts) THEN 0
    ELSE IF parts[from] = "" THEN from
    ELSE IndexOfEmpty(parts, from + 1)

\* TypedArray.prototype.set(source, offset)
SetAt(target, source, offset) ==
    [k \in 1..Len(target) |->
        IF k > offset /\ k <= offset + Len(source) THEN source[k - offset] ELSE target[k]]
    \o << >>

Zeros(n) == [k \in 1..n |-> 0] \o << >>

\* bytes[i * 2] = (value >> 8) & 0xff; bytes[i * 2 + 1] = value & 0xff
RECURSIVE GroupsToBytes(_, _)
GroupsToBytes(parts, i) ==
    IF i > Len(parts) THEN Ok(<< >>)
    ELSE LET value == parseInt(IF parts[i] = "" THEN "0" ELSE parts[i], 16)
         IN  IF value.nan \/ value.n < 0 \/ value.n > 65535
             THEN Err("Invalid IPv6 group: " \o parts[i])
             ELSE LET rest == GroupsToBytes(parts, i + 1)
                  IN  IF rest.ok
                      THEN Ok(<< (value.n \div 256) % 256, value.n % 256 >> \o rest.value)
                      ELSE rest

ipToBytes(ip) ==
    IF IPV4_REGEX_test(ip)
    THEN LET parts == [k \in 1..4 |-> parseInt(Split(ip, ".")[k], 10)]
         IN  IF \E k \in 1..4 : parts[k].nan \/ parts[k].n < 0 \/ parts[k].n > 255
             THEN Err("Invalid IPv4 address: " \o ip)
             ELSE Ok(SetAt(SetAt(Zeros(BYTES_LENGTH), IPV4_MAPPED_PREFIX, 0),
                           [k \in 1..4 |-> parts[k].n], 12))
    ELSE LET t == Trim(ip)
             t1 == IF Len(t) > 0 /\ Char(t, 1) = "[" THEN Tail(t) ELSE t
             cleanIp == IF Len(t1) > 0 /\ Char(t1, Len(t1)) = "]"
                        THEN SubSeq(t1, 1, Len(t1) - 1) ELSE t1
             split == Split(cleanIp, ":")
             at == IndexOfEmpty(split, 1)
             beforeDouble == SubSeq(split, 1, at - 1)
             afterDouble == SubSeq(split, at + 1, Len(split))
             missingGroups == IPV6_GROUPS - (Len(beforeDouble) + Len(afterDouble))
             parts == IF Includes(cleanIp, "::")
                      THEN beforeDouble \o Repeat("0", missingGroups) \o afterDouble
                      ELSE split
         IN  IF Includes(cleanIp, ":::") \/ CountDoubleColon(cleanIp) > 1
             THEN Err("Invalid IPv6 address (invalid :: usage): " \o ip)
             ELSE IF Includes(cleanIp, "::") /\ missingGroups <= 0
             THEN Err("Invalid IPv6 address (too many groups): " \o ip)
             ELSE IF Len(parts) # IPV6_GROUPS
             THEN Err("Invalid IPv6 address (wrong number of groups): " \o ip)
             ELSE GroupsToBytes(parts, 1)

\* the first longest run of "0" groups: [start, length], start from 0
RECURSIVE LongestZeroRun(_, _, _, _)
LongestZeroRun(parts, i, current, longest) ==
    IF i > Len(parts)
    THEN (IF current.length > longest.length THEN current ELSE longest)
    ELSE IF parts[i] = "0"
    THEN LongestZeroRun(parts, i + 1,
            [start |-> IF current.length = 0 THEN i - 1 ELSE current.start,
             length |-> current.length + 1], longest)
    ELSE LongestZeroRun(parts, i + 1, [start |-> -1, length |-> 0],
            IF current.length > longest.length THEN current ELSE longest)

\* a bytesToIp that takes every block whose bytes 10 and 11 are 0xff for a
\* mapped one and prints its last four bytes
bytesToIpAnyPrefix(input) ==
    IF Len(input) # BYTES_LENGTH THEN Err("Input must be exactly 16 bytes")
    ELSE IF input[11] = 255 /\ input[12] = 255
    THEN Ok(Join([k \in 1..4 |-> toString(input[12 + k], 10)], "."))
    ELSE LET parts == [i \in 1..IPV6_GROUPS |->
                          toString(input[2 * i - 1] * 256 + input[2 * i], 16)]
             zeroRun == LongestZeroRun(parts, 1, [start |-> -1, length |-> 0],
                                       [start |-> -1, length |-> 0])
         IN  IF zeroRun.length >= 2
             THEN Ok(Join(SubSeq(parts, 1, zeroRun.start), ":") \o "::"
                     \o Join(SubSeq(parts, zeroRun.start + zeroRun.length + 1,
                                    IPV6_GROUPS), ":"))
             ELSE Ok(Join(parts, ":"))

bytesToIp(input) ==
    IF Len(input) # BYTES_LENGTH THEN Err("Input must be exactly 16 bytes")
    ELSE IF \A index \in 0..11 :
               IF index < 10 THEN input[index + 1] = 0 ELSE input[index + 1] = 255
    THEN Ok(Join([k \in 1..4 |-> toString(input[12 + k], 10)], "."))
    ELSE LET parts == [i \in 1..IPV6_GROUPS |->
                          toString(input[2 * i - 1] * 256 + input[2 * i], 16)]
             zeroRun == LongestZeroRun(parts, 1, [start |-> -1, length |-> 0],
                                       [start |-> -1, length |-> 0])
         IN  IF zeroRun.length >= 2
             THEN Ok(Join(SubSeq(parts, 1, zeroRun.start), ":") \o "::"
                     \o Join(SubSeq(parts, zeroRun.start + zeroRun.length + 1,
                                    IPV6_GROUPS), ":"))
             ELSE Ok(Join(parts, ":"))

(***************************************************************************)
(* ipcrypt-pfx.js                                                          *)
(***************************************************************************)
\* one main round of aesEncrypt: SubBytes, ShiftRows, MixColumns, AddRoundKey
aesEncryptRound(expandedKey, state, round) ==
    XorBytes[mixColumns[shiftRows[subBytes[state, FALSE], FALSE], FALSE],
             RoundKey(expandedKey, round)]

\* rounds of which the last one mixes the columns as the main rounds do
aesEncryptRoundsMixedLast(expandedKey, input) ==
    Iterate(LAMBDA state, round : aesEncryptRound(expandedKey, state, round),
            Block, XorBytes[input, RoundKey(expandedKey, 0)], 1, 11)

\* the rounds of aesEncrypt under an expanded key: the initial AddRoundKey,
\* main rounds 1 .. 9, and the final round without MixColumns
aesEncryptRounds(expandedKey, input) ==
    XorBytes[shiftRows[subBytes[
                 Iterate(LAMBDA state, round : aesEncryptRound(expandedKey, state, round),
                         Block, XorBytes[input, RoundKey(expandedKey, 0)], 1, 10),
                 FALSE], FALSE],
             RoundKey(expandedKey, 10)]

\* aesEncrypt: the AES-128 encryption of ipcrypt-pfx.js
aesEncrypt(key, input) ==
    Let(ByteArray, LAMBDA expandedKey : aesEncryptRounds(expandedKey, input), expandKey(key))

\* a test that looks at bytes 10 and 11 only
isIPv4SkipsZeros(bytes16) == bytes16[11] = 255 /\ bytes16[12] = 255

\* a test that finds no block to be a mapped one
isIPv4Never(bytes16) == FALSE

isIPv4(bytes16) ==
    /\ \A k \in 1..10 : bytes16[k] = 0
    /\ bytes16[11] = 255
    /\ bytes16[12] = 255

\* position 0 is the least significant bit of byte 15, 127 the most
\* significant bit of byte 0
getBit(data, position) ==
    LET byteIndex == 15 - (position \div 8)
        bitIndex == position % 8
    IN  (data[byteIndex + 1] \div Pow2[bitIndex + 1]) % 2

setBit(data, position, value) ==
    LET byteIndex == 15 - (position \div 8)
        bitIndex == position % 8
        old == (data[byteIndex + 1] \div Pow2[bitIndex + 1]) % 2
    IN  [data EXCEPT ![byteIndex + 1] =
            IF value # 0 THEN @ + (1 - old) * Pow2[bitIndex + 1]
                         ELSE @ - old * Pow2[bitIndex + 1]]

\* a shift that moves each byte on its own and drops its top bit
shiftLeftOneBitNoCarry(data) == NewArray(16, LAMBDA i : (2 * data[i + 1]) % 256)

\* result[i] = ((data[i] << 1) | carry) & 0xFF, the carry being bit 7 of
\* data[i + 1] (0 for i = 15)
shiftLeftOneBit(data) ==
    NewArray(16, LAMBDA i : ((2 * data[i + 1]) % 256)
                            + (IF i = 15 THEN 0 ELSE data[i + 2] \div 128))

padPrefix0 == << 0, 0, 0, 0, 0, 0, 0, 0, 0, 0, 0, 0, 0, 0, 0, 1 >>

padPrefix96 == << 0, 0, 0, 1, 0, 0, 0, 0, 0, 0, 0, 0, 0, 0, 255, 255 >>

\* a key check that rejects a key as soon as ONE byte of the halves agrees
HalvesShareAByte(K1, K2) == \E i \in 1..Len(K1) : K1[i] = K2[i]

\* K1.every((byte, i) => byte === K2[i])
HalvesEqual(K1, K2) == \A i \in 1..Len(K1) : K1[i] = K2[i]

\* const cipherBit = e[15] & 1, e = aesEncrypt(K1, p) ^ aesEncrypt(K2, p)
PfxCipherBit(K1, K2, paddedPrefix) ==
    XorBytes[aesEncrypt(K1, paddedPrefix), aesEncrypt(K2, paddedPrefix)][16] % 2

\* the state of the bit loop of encrypt: the two arrays it updates and the
\* number of calls of aesEncrypt made so far; after an iteration, also the
\* position that iteration wrote
PfxEncryptState ==
    [encrypted : Block, paddedPrefix : Block, aesCalls : 0..256]
    \cup [encrypted : Block, paddedPrefix : Block, aesCalls : 0..256, currentBitPos : 0..127]

PfxDecryptState ==
    [decrypted : Block, paddedPrefix : Block, aesCalls : 0..256]
    \cup [decrypted : Block, paddedPrefix : Block, aesCalls : 0..256, currentBitPos : 0..127]

\* an iteration of encrypt whose register takes in the bit it has just
\* written to the output instead of the plaintext bit
PfxEncryptBitCipherFed(bytes16, st, currentBitPos, cipherBit) ==
    [encrypted |-> setBit(st.encrypted, currentBitPos,
                          Xor(cipherBit, getBit(bytes16, currentBitPos))),
     paddedPrefix |-> setBit(shiftLeftOneBit(st.paddedPrefix), 0,
                             Xor(cipherBit, getBit(bytes16, currentBitPos))),
     aesCalls |-> st.aesCalls + 2,
     currentBitPos |-> currentBitPos]

\* the second half of an iteration of encrypt, lines 185-196: the bit at
\* currentBitPos is encrypted with cipherBit, which the two calls of
\* aesEncrypt of lines 174-175 gave, and the register takes in the
\* plaintext bit
PfxEncryptBit(bytes16, st, currentBitPos, cipherBit) ==
    [encrypted |-> setBit(st.encrypted, currentBitPos,
                          Xor(cipherBit, getBit(bytes16, currentBitPos))),
     paddedPrefix |-> setBit(shiftLeftOneBit(st.paddedPrefix), 0,
                             getBit(bytes16, currentBitPos)),
     aesCalls |-> st.aesCalls + 2,
     currentBitPos |-> currentBitPos]

\* the second half of an iteration of decrypt, lines 263-274: the recovered
\* bit is stored and the register takes it in
PfxDecryptBit(st, currentBitPos, originalBit) ==
    [decrypted |-> setBit(st.decrypted, currentBitPos, originalBit),
     paddedPrefix |-> setBit(shiftLeftOneBit(st.paddedPrefix), 0, originalBit),
     aesCalls |-> st.aesCalls + 2,
     currentBitPos |-> currentBitPos]

\* an iteration of the bit loop that walks the address from its LOWEST bit
\* up instead of from its highest bit down
PfxEncryptStepLowBitFirst(K1, K2, bytes16, st, prefixLenBits) ==
    Let(0..1, LAMBDA cipherBit :
                PfxEncryptBit(bytes16, st,
                              IF isIPv4(bytes16) THEN prefixLenBits - 96 ELSE prefixLenBits,
                              cipherBit),
        PfxCipherBit(K1, K2, st.paddedPrefix))

\* an iteration of the bit loop whose register takes in the plaintext bit
\* two places BELOW the one it has just encrypted
PfxEncryptStepLooksAhead(K1, K2, bytes16, st, prefixLenBits) ==
    [Let(0..1, LAMBDA cipherBit : PfxEncryptBit(bytes16, st, 127 - prefixLenBits, cipherBit),
         PfxCipherBit(K1, K2, st.paddedPrefix))
        EXCEPT !.paddedPrefix =
            setBit(shiftLeftOneBit(st.paddedPrefix), 0,
                   IF prefixLenBits > 125 THEN 0 ELSE getBit(bytes16, 125 - prefixLenBits))]

\* an iteration of encrypt whose register takes in the plaintext bit
\* BEFORE the two calls of aesEncrypt, so that the bit is encrypted under
\* a register that holds it
PfxEncryptStepBitFirst(K1, K2, bytes16, st, prefixLenBits) ==
    Let(0..1, LAMBDA cipherBit : PfxEncryptBit(bytes16, st, 127 - prefixLenBits, cipherBit),
        PfxCipherBit(K1, K2, setBit(shiftLeftOneBit(st.paddedPrefix), 0,
                                    getBit(bytes16, 127 - prefixLenBits))))

\* one iteration of the bit loop of encrypt; st holds the two arrays the
\* loop updates
PfxEncryptStep(K1, K2, bytes16, st, prefixLenBits) ==
    Let(0..1, LAMBDA cipherBit : PfxEncryptBit(bytes16, st, 127 - prefixLenBits, cipherBit),
        PfxCipherBit(K1, K2, st.paddedPrefix))

\* an iteration of decrypt that shifts the ciphertext bit into the register
PfxDecryptStepCiphertextFed(K1, K2, encryptedBytes, st, prefixLenBits) ==
    Let(0..1, LAMBDA cipherBit :
                [PfxDecryptBit(st, 127 - prefixLenBits,
                               Xor(cipherBit, getBit(encryptedBytes, 127 - prefixLenBits)))
                   EXCEPT !.paddedPrefix =
                       setBit(shiftLeftOneBit(st.paddedPrefix), 0,
                              getBit(encryptedBytes, 127 - prefixLenBits))],
        PfxCipherBit(K1, K2, st.paddedPrefix))

\* one iteration of the bit loop of decrypt
PfxDecryptStep(K1, K2, encryptedBytes, st, prefixLenBits) ==
    Let(0..1, LAMBDA cipherBit :
                PfxDecryptBit(st, 127 - prefixLenBits,
                              Xor(cipherBit, getBit(encryptedBytes, 127 - prefixLenBits))),
        PfxCipherBit(K1, K2, st.paddedPrefix))

\* a loop that, on a mapped block, starts one iteration late
PfxEncryptStatesLateStart(K1, K2, bytes16) ==
    LET ipv4 == isIPv4(bytes16)
        prefixStart == IF ipv4 THEN 97 ELSE 0
        encrypted == IF ipv4 THEN SetAt(Zeros(16), SubSeq(bytes16, 1, 12), 0)
                             ELSE Zeros(16)
        paddedPrefix == IF ipv4 THEN padPrefix96 ELSE padPrefix0
    IN  << [encrypted |-> encrypted, paddedPrefix |-> paddedPrefix, aesCalls |-> 0] >>
        \o IterateTrace(LAMBDA st, prefixLenBits :
                            PfxEncryptStep(K1, K2, bytes16, st, prefixLenBits),
                        PfxEncryptState,
                        [encrypted |-> encrypted, paddedPrefix |-> paddedPrefix,
                         aesCalls |-> 0],
                        prefixStart, 128)

\* lines 149-197 of encrypt: the state before the first iteration, then
\* the state after each iteration
PfxEncryptStates(K1, K2, bytes16) ==
    LET ipv4 == isIPv4(bytes16)
        prefixStart == IF ipv4 THEN 96 ELSE 0
        encrypted == IF ipv4 THEN SetAt(Zeros(16), SubSeq(bytes16, 1, 12), 0)
                             ELSE Zeros(16)
        paddedPrefix == IF ipv4 THEN padPrefix96 ELSE padPrefix0
    IN  << [encrypted |-> encrypted, paddedPrefix |-> paddedPrefix, aesCalls |-> 0] >>
        \o IterateTrace(LAMBDA st, prefixLenBits :
                            PfxEncryptStep(K1, K2, bytes16, st, prefixLenBits),
                        PfxEncryptState,
                        [encrypted |-> encrypted, paddedPrefix |-> paddedPrefix,
                         aesCalls |-> 0],
                        prefixStart, 128)

\* a decrypt that does not copy the first 12 bytes of a mapped block
PfxDecryptStatesNoCopy(K1, K2, encryptedBytes) ==
    LET ipv4 == isIPv4(encryptedBytes)
        prefixStart == IF ipv4 THEN 96 ELSE 0
        paddedPrefix == IF prefixStart = 0 THEN padPrefix0 ELSE padPrefix96
    IN  << [decrypted |-> Zeros(16), paddedPrefix |-> paddedPrefix, aesCalls |-> 0] >>
        \o IterateTrace(LAMBDA st, prefixLenBits :
                            PfxDecryptStep(K1, K2, encryptedBytes, st, prefixLenBits),
                        PfxDecryptState,
                        [decrypted |-> Zeros(16), paddedPrefix |-> paddedPrefix,
                         aesCalls |-> 0],
                        prefixStart, 128)

\* lines 226-275 of decrypt, likewise
PfxDecryptStates(K1, K2, encryptedBytes) ==
    LET ipv4 == isIPv4(encryptedBytes)
        prefixStart == IF ipv4 THEN 96 ELSE 0
        decrypted == IF ipv4 THEN SetAt(Zeros(16), SubSeq(encryptedBytes, 1, 12), 0)
                             ELSE Zeros(16)
        paddedPrefix == IF prefixStart = 0 THEN padPrefix0 ELSE padPrefix96
    IN  << [decrypted |-> decrypted, paddedPrefix |-> paddedPrefix, aesCalls |-> 0] >>
        \o IterateTrace(LAMBDA st, prefixLenBits :
                            PfxDecryptStep(K1, K2, encryptedBytes, st, prefixLenBits),
                        PfxDecryptState,
                        [decrypted |-> decrypted, paddedPrefix |-> paddedPrefix,
                         aesCalls |-> 0],
                        prefixStart, 128)

\* the block the loop of encrypt leaves in encrypted
PfxEncryptBlock(K1, K2, bytes16) == Last(PfxEncryptStates(K1, K2, bytes16)).encrypted

\* the block the loop of decrypt leaves in decrypted
PfxDecryptBlock(K1, K2, encryptedBytes) ==
    Last(PfxDecryptStates(K1, K2, encryptedBytes)).decrypted

\* a call of encrypt or decrypt that threw msg: the loop was not entered
PfxThrown(msg) == [out |-> Err(msg), states |-> << >>]

\* an encrypt that converts the address before it looks at the key
PfxEncryptRunAddressFirst(ip, key) ==
    IF ~ipToBytes(ip).ok THEN [out |-> ipToBytes(ip), states |-> << >>]
    ELSE IF Len(key) # 32 THEN PfxThrown("Key must be 32 bytes")
    ELSE IF HalvesEqual(SubSeq(key, 1, 16), SubSeq(key, 17, 32))
    THEN PfxThrown("The two halves of the key must be different")
    ELSE Let(Seq(PfxEncryptState),
             LAMBDA states : [out |-> bytesToIp(Last(states).encrypted), states |-> states],
             PfxEncryptStates(SubSeq(key, 1, 16), SubSeq(key, 17, 32), ipToBytes(ip).value))

\* ipcrypt-pfx.js encrypt(ip, key): what it returns or throws, and the
\* states its loop went through
PfxEncryptRun(ip, key) ==
    IF Len(key) # 32 THEN PfxThrown("Key must be 32 bytes")
    ELSE IF HalvesEqual(SubSeq(key, 1, 16), SubSeq(key, 17, 32))
    THEN PfxThrown("The two halves of the key must be different")
    ELSE IF ~ipToBytes(ip).ok THEN [out |-> ipToBytes(ip), states |-> << >>]
    ELSE Let(Seq(PfxEncryptState),
             LAMBDA states : [out |-> bytesToIp(Last(states).encrypted), states |-> states],
             PfxEncryptStates(SubSeq(key, 1, 16), SubSeq(key, 17, 32), ipToBytes(ip).value))

\* ipcrypt-pfx.js decrypt(encryptedIp, key), likewise
PfxDecryptRun(encryptedIp, key) ==
    IF Len(key) # 32 THEN PfxThrown("Key must be 32 bytes")
    ELSE IF HalvesEqual(SubSeq(key, 1, 16), SubSeq(key, 17, 32))
    THEN PfxThrown("The two halves of the key must be different")
    ELSE IF ~ipToBytes(encryptedIp).ok THEN [out |-> ipToBytes(encryptedIp), states |-> << >>]
    ELSE Let(Seq(PfxDecryptState),
             LAMBDA states : [out |-> bytesToIp(Last(states).decrypted), states |-> states],
             PfxDecryptStates(SubSeq(key, 1, 16), SubSeq(key, 17, 32),
                              ipToBytes(encryptedIp).value))

PfxEncrypt(ip, key) == PfxEncryptRun(ip, key).out

PfxDecrypt(encryptedIp, key) == PfxDecryptRun(encryptedIp, key).out
(***************************************************************************)
(* ipcrypt-deterministic.js                                                *)
(***************************************************************************)
\* a main round of encrypt that mixes the columns before it rotates the rows
DetEncryptRoundMixFirst(expandedKey, state, round) ==
    XorBytes[shiftRows[mixColumns[subBytes[state, FALSE], FALSE], FALSE],
             RoundKey(expandedKey, round)]

\* one main round of encrypt, lines 41-48
DetEncryptRound(expandedKey, state, round) ==
    XorBytes[mixColumns[shiftRows[subBytes[state, FALSE], FALSE], FALSE],
             RoundKey(expandedKey, round)]

\* lines 35-55 of encrypt: initial round, main rounds 1 .. 9, final round
DetEncryptRounds(expandedKey, state) ==
    XorBytes[shiftRows[subBytes[
                 Iterate(LAMBDA s, round : DetEncryptRound(expandedKey, s, round),
                         Block, XorBytes[state, RoundKey(expandedKey, 0)], 1, 10),
                 FALSE], FALSE],
             RoundKey(expandedKey, 10)]

\* a main round of decrypt that mixes the columns FORWARD
DetDecryptRoundForwardMix(expandedKey, state, round) ==
    subBytes[shiftRows[mixColumns[XorBytes[state, RoundKey(expandedKey, round)],
                                  FALSE], TRUE], TRUE]

\* one main round of decrypt, lines 93-100
DetDecryptRound(expandedKey, state, round) ==
    subBytes[shiftRows[mixColumns[XorBytes[state, RoundKey(expandedKey, round)],
                                  TRUE], TRUE], TRUE]

\* lines 85-105 of decrypt: initial round, main rounds 9 .. 1, final round
DetDecryptRounds(expandedKey, state) ==
    XorBytes[Iterate(LAMBDA s, i : DetDecryptRound(expandedKey, s, 10 - i),
                     Block,
                     subBytes[shiftRows[XorBytes[state, RoundKey(expandedKey, 10)],
                                        TRUE], TRUE],
                     1, 10),
             RoundKey(expandedKey, 0)]

\* ipcrypt-deterministic.js encrypt(ip, key)
DetEncrypt(ip, key) ==
    IF Len(key) # 16 THEN Err("Key must be a 16-byte Uint8Array")
    ELSE Try(ipToBytes(ip),
             LAMBDA state :
                 bytesToIp(Let(ByteArray,
                               LAMBDA expandedKey : DetEncryptRounds(expandedKey, state),
                               expandKey(key))))

\* ipcrypt-deterministic.js decrypt(encryptedIp, key)
DetDecrypt(encryptedIp, key) ==
    IF Len(key) # 16 THEN Err("Key must be a 16-byte Uint8Array")
    ELSE Try(ipToBytes(encryptedIp),
             LAMBDA state :
                 bytesToIp(Let(ByteArray,
                               LAMBDA expandedKey : DetDecryptRounds(expandedKey, state),
                               expandKey(key))))

(***************************************************************************)
(* core/kiasu-bc.js                                                        *)
(***************************************************************************)
\* a padding that steps through the tweak byte by byte: padded[i * 2] =
\* tweak[i] for i = 0 .. 7
padTweakByteWise(tweak) ==
    Iterate(LAMBDA padded, i : [padded EXCEPT ![i * 2 + 1] = tweak[i + 1]],
            Block, Zeros(16), 0, 8)

\* lines 22-27 of padTweak: padded is a new array of 16 zero bytes, and for
\* i = 0, 2, 4, 6 padded[i * 2] = tweak[i], padded[i * 2 + 1] = tweak[i + 1]
padTweak(tweak) ==
    Iterate(LAMBDA padded, k : [padded EXCEPT ![(2 * k) * 2 + 1] = tweak[2 * k + 1],
                                              ![(2 * k) * 2 + 2] = tweak[2 * k + 2]],
            Block, Zeros(16), 0, 4)

\* padTweak(tweak), lines 17-28: what it returns or throws
padTweakOrThrow(tweak) ==
    IF Len(tweak) # 8 THEN Err("Tweak must be an 8-byte Uint8Array")
    ELSE Ok(padTweak(tweak))

\* round keys of which only the first is XORed with the tweak
KiasuRoundKeyFirstOnly(expandedKey, paddedTweak, round) ==
    XorBytes[RoundKey(expandedKey, round), IF round = 0 THEN paddedTweak ELSE Zeros(16)]

\* expandedKey[round * 16 + i] ^ paddedTweak[i], i = 0..15
KiasuRoundKey(expandedKey, paddedTweak, round) ==
    XorBytes[RoundKey(expandedKey, round), paddedTweak]

\* one main round of encrypt, lines 62-69
KiasuEncryptRound(expandedKey, paddedTweak, state, round) ==
    XorBytes[mixColumns[shiftRows[subBytes[state, FALSE], FALSE], FALSE],
             KiasuRoundKey(expandedKey, paddedTweak, round)]

\* lines 56-76 of encrypt
KiasuEncryptRounds(expandedKey, paddedTweak, block) ==
    XorBytes[shiftRows[subBytes[
                 Iterate(LAMBDA s, round :
                             KiasuEncryptRound(expandedKey, paddedTweak, s, round),
                         Block,
                         XorBytes[block, KiasuRoundKey(expandedKey, paddedTweak, 0)],
                         1, 10),
                 FALSE], FALSE],
             KiasuRoundKey(expandedKey, paddedTweak, 10)]

\* a main round of decrypt that leaves the tweak out of the round key
KiasuDecryptRoundUntweaked(expandedKey, paddedTweak, state, round) ==
    subBytes[shiftRows[mixColumns[XorBytes[state, RoundKey(expandedKey, round)],
                                  TRUE], TRUE], TRUE]

\* one main round of decrypt, lines 115-122
KiasuDecryptRound(expandedKey, paddedTweak, state, round) ==
    subBytes[shiftRows[mixColumns[
                 XorBytes[state, KiasuRoundKey(expandedKey, paddedTweak, round)],
                 TRUE], TRUE], TRUE]

\* lines 107-127 of decrypt
KiasuDecryptRounds(expandedKey, paddedTweak, block) ==
    XorBytes[Iterate(LAMBDA s, i :
                         KiasuDecryptRound(expandedKey, paddedTweak, s, 10 - i),
                     Block,
                     subBytes[shiftRows[
                         XorBytes[block, KiasuRoundKey(expandedKey, paddedTweak, 10)],
                         TRUE], TRUE],
                     1, 10),
             KiasuRoundKey(expandedKey, paddedTweak, 0)]

\* an encrypt that takes a tweak of 8 bytes or more and reads its first 8
KiasuEncryptLongTweak(key, tweak, block) ==
    IF Len(key) # 16 THEN Err("Key must be a 16-byte Uint8Array")
    ELSE IF Len(tweak) < 8 THEN Err("Tweak must be an 8-byte Uint8Array")
    ELSE IF Len(block) # 16 THEN Err("Block must be a 16-byte Uint8Array")
    ELSE Ok(Let(ByteArray,
                LAMBDA expandedKey :
                    KiasuEncryptRounds(expandedKey, padTweak(tweak), block),
                expandKey(key)))

\* kiasu-bc.js encrypt(key, tweak, block)
KiasuEncrypt(key, tweak, block) ==
    IF Len(key) # 16 THEN Err("Key must be a 16-byte Uint8Array")
    ELSE IF Len(tweak) # 8 THEN Err("Tweak must be an 8-byte Uint8Array")
    ELSE IF Len(block) # 16 THEN Err("Block must be a 16-byte Uint8Array")
    ELSE Ok(Let(ByteArray,
                LAMBDA expandedKey : KiasuEncryptRounds(expandedKey, padTweak(tweak), block),
                expandKey(key)))

\* kiasu-bc.js decrypt(key, tweak, block)
KiasuDecrypt(key, tweak, block) ==
    IF Len(key) # 16 THEN Err("Key must be a 16-byte Uint8Array")
    ELSE IF Len(tweak) # 8 THEN Err("Tweak must be an 8-byte Uint8Array")
    ELSE IF Len(block) # 16 THEN Err("Block must be a 16-byte Uint8Array")
    ELSE Ok(Let(ByteArray,
                LAMBDA expandedKey : KiasuDecryptRounds(expandedKey, padTweak(tweak), block),
                expandKey(key)))

(***************************************************************************)
(* ipcrypt-nd.js.  The optional tweak argument is a JavaScript value:      *)
(* undefined when the caller leaves it out, a Uint8Array, or any other     *)
(* value the caller passes.  random is what the random source returns when *)
(* it is asked.                                                            *)
(***************************************************************************)
\* the values a caller can pass for the tweak: no value, a byte array, or a
\* value of another type, given by its type and its text
NoTweak == [typeof |-> "undefined"]
Uint8Array(bytes) == [typeof |-> "Uint8Array", bytes |-> bytes]
JsValue(typeof, text) == [typeof |-> typeof, text |-> text]

\* !tweak: undefined, null, false, 0, NaN and "" convert to false, every
\* object (an empty array included) and every other value to true
Falsy(v) ==
    \/ v.typeof = "undefined"
    \/ v.typeof = "object" /\ v.text = "null"
    \/ v.typeof = "boolean" /\ v.text = "false"
    \/ v.typeof = "number" /\ v.text \in { "0", "NaN" }
    \/ v.typeof = "string" /\ v.text = ""

\* !(tweak instanceof Uint8Array) || tweak.length !== n
NotBytesOfLength(v, n) == v.typeof # "Uint8Array" \/ Len(v.bytes) # n

\* a wrapper that draws a fresh tweak even when the caller supplies one
TweakAlwaysDrawn(tweak, random) == random

\* lines 25-30 of nd.encrypt, lines 218-222 of ndx.encrypt: the tweak the
\* call goes on with
TweakUsed(tweak, random) == IF Falsy(tweak) THEN random ELSE tweak.bytes

\* lines 37-40: result.set(tweak); result.set(ciphertext, 8)
NdCombine(tweak, ciphertext) == SetAt(SetAt(Zeros(24), tweak, 0), ciphertext, 8)

\* ipcrypt-nd.js encrypt(ip, key, tweak)
NdEncrypt(ip, key, tweak, random) ==
    IF Len(key) # 16 THEN Err("Key must be a 16-byte Uint8Array")
    ELSE IF ~Falsy(tweak) /\ NotBytesOfLength(tweak, 8)
    THEN Err("Tweak must be an 8-byte Uint8Array")
    ELSE Try(ipToBytes(ip),
             LAMBDA plaintext :
                 Try(KiasuEncrypt(key, TweakUsed(tweak, random), plaintext),
                     LAMBDA ciphertext : Ok(NdCombine(TweakUsed(tweak, random), ciphertext))))

\* a split that takes the tweak from the bytes after the first eight
NdTweakOfShifted(encryptedData) == SubSeq(encryptedData, 9, 16)

\* encryptedData.slice(0, 8)
NdTweakOf(encryptedData) == SubSeq(encryptedData, 1, 8)

\* encryptedData.slice(8)
NdCiphertextOf(encryptedData) == SubSeq(encryptedData, 9, Len(encryptedData))

\* ipcrypt-nd.js decrypt(encryptedData, key)
NdDecrypt(encryptedData, key) ==
    IF Len(encryptedData) # 24 THEN Err("Encrypted data must be a 24-byte Uint8Array")
    ELSE IF Len(key) # 16 THEN Err("Key must be a 16-byte Uint8Array")
    ELSE Try(KiasuDecrypt(key, NdTweakOf(encryptedData), NdCiphertextOf(encryptedData)),
             LAMBDA plaintext : bytesToIp(plaintext))

(***************************************************************************)
(* ipcrypt-ndx.js                                                          *)
(***************************************************************************)
\* one main round of an AES encryption of ipcrypt-ndx.js (lines 52-59,
\* 80-87 and 148-155)
XtsEncryptRound(roundKeys, state, round) ==
    XorBytes[mixColumns[shiftRows[subBytes[state, FALSE], FALSE], FALSE],
             RoundKey(roundKeys, round)]

\* lines 42-66 of encryptBlockXts: the tweak encrypted under K2
XtsEncryptMask(roundKeys2, tweak) ==
    XorBytes[shiftRows[subBytes[
                 Iterate(LAMBDA s, round : XtsEncryptRound(roundKeys2, s, round),
                         Block, XorBytes[tweak, RoundKey(roundKeys2, 0)], 1, 10),
                 FALSE], FALSE],
             RoundKey(roundKeys2, 10)]

\* a tweak encryption that stops after the main rounds
XtsDecryptMaskNoFinalRound(roundKeys2, tweak) ==
    Iterate(LAMBDA s, round : XtsEncryptRound(roundKeys2, s, round),
            Block, XorBytes[tweak, RoundKey(roundKeys2, 0)], 1, 10)

\* lines 138-162 of decryptBlockXts: the tweak encrypted under K2
XtsDecryptMask(roundKeys2, tweak) ==
    XorBytes[shiftRows[subBytes[
                 Iterate(LAMBDA s, round : XtsEncryptRound(roundKeys2, s, round),
                         Block, XorBytes[tweak, RoundKey(roundKeys2, 0)], 1, 10),
                 FALSE], FALSE],
             RoundKey(roundKeys2, 10)]

\* lines 74-94 of encryptBlockXts
XtsEncryptRounds(roundKeys1, state) ==
    XorBytes[shiftRows[subBytes[
                 Iterate(LAMBDA s, round : XtsEncryptRound(roundKeys1, s, round),
                         Block, XorBytes[state, RoundKey(roundKeys1, 0)], 1, 10),
                 FALSE], FALSE],
             RoundKey(roundKeys1, 10)]

\* one main round of decryptBlockXts, lines 178-185
XtsDecryptRound(roundKeys1, state, round) ==
    subBytes[shiftRows[mixColumns[XorBytes[state, RoundKey(roundKeys1, round)],
                                  TRUE], TRUE], TRUE]

\* lines 170-190 of decryptBlockXts
XtsDecryptRounds(roundKeys1, state) ==
    XorBytes[Iterate(LAMBDA s, i : XtsDecryptRound(roundKeys1, s, 10 - i),
                     Block,
                     subBytes[shiftRows[XorBytes[state, RoundKey(roundKeys1, 10)],
                                        TRUE], TRUE],
                     1, 10),
             RoundKey(roundKeys1, 0)]

\* lines 68-99 of encryptBlockXts: whitening, AES under K1, whitening
XtsEncryptWhitened(roundKeys1, encryptedTweak, plaintext) ==
    XorBytes[XtsEncryptRounds(roundKeys1, XorBytes[plaintext, encryptedTweak]),
             encryptedTweak]

\* lines 164-195 of decryptBlockXts
XtsDecryptWhitened(roundKeys1, encryptedTweak, ciphertext) ==
    XorBytes[XtsDecryptRounds(roundKeys1, XorBytes[ciphertext, encryptedTweak]),
             encryptedTweak]

\* an encryptBlockXts that refuses a key of two equal halves, as pfx does
encryptBlockXtsHalvesChecked(key, tweak, plaintext) ==
    IF Len(key) # 32 THEN Err("Key must be a 32-byte Uint8Array")
    ELSE IF Len(tweak) # 16 THEN Err("Tweak must be a 16-byte Uint8Array")
    ELSE IF Len(plaintext) # 16 THEN Err("Plaintext must be a 16-byte Uint8Array")
    ELSE IF HalvesEqual(SubSeq(key, 1, 16), SubSeq(key, 17, 32))
    THEN Err("The two halves of the key must be different")
    ELSE Ok(Let(ByteArray,
                LAMBDA roundKeys1 :
                    Let(Block,
                        LAMBDA encryptedTweak :
                            XtsEncryptWhitened(roundKeys1, encryptedTweak, plaintext),
                        Let(ByteArray,
                            LAMBDA roundKeys2 : XtsEncryptMask(roundKeys2, tweak),
                            expandKey(SubSeq(key, 17, 32)))),
                expandKey(SubSeq(key, 1, 16))))

encryptBlockXts(key, tweak, plaintext) ==
    IF Len(key) # 32 THEN Err("Key must be a 32-byte Uint8Array")
    ELSE IF Len(tweak) # 16 THEN Err("Tweak must be a 16-byte Uint8Array")
    ELSE IF Len(plaintext) # 16 THEN Err("Plaintext must be a 16-byte Uint8Array")
    ELSE Ok(Let(ByteArray,
                LAMBDA roundKeys1 :
                    Let(Block,
                        LAMBDA encryptedTweak :
                            XtsEncryptWhitened(roundKeys1, encryptedTweak, plaintext),
                        Let(ByteArray,
                            LAMBDA roundKeys2 : XtsEncryptMask(roundKeys2, tweak),
                            expandKey(SubSeq(key, 17, 32)))),
                expandKey(SubSeq(key, 1, 16))))

\* a decryptBlockXts that takes a ciphertext of 16 bytes or more and reads
\* its first 16
decryptBlockXtsLongBlock(key, tweak, ciphertext) ==
    IF Len(key) # 32 THEN Err("Key must be a 32-byte Uint8Array")
    ELSE IF Len(tweak) # 16 THEN Err("Tweak must be a 16-byte Uint8Array")
    ELSE IF Len(ciphertext) < 16 THEN Err("Ciphertext must be a 16-byte Uint8Array")
    ELSE Ok(Let(ByteArray,
                LAMBDA roundKeys1 :
                    Let(Block,
                        LAMBDA encryptedTweak :
                            XtsDecryptWhitened(roundKeys1, encryptedTweak,
                                               SubSeq(ciphertext, 1, 16)),
                        Let(ByteArray,
                            LAMBDA roundKeys2 : XtsDecryptMask(roundKeys2, tweak),
                            expandKey(SubSeq(key, 17, 32)))),
                expandKey(SubSeq(key, 1, 16))))

decryptBlockXts(key, tweak, ciphertext) ==
    IF Len(key) # 32 THEN Err("Key must be a 32-byte Uint8Array")
    ELSE IF Len(tweak) # 16 THEN Err("Tweak must be a 16-byte Uint8Array")
    ELSE IF Len(ciphertext) # 16 THEN Err("Ciphertext must be a 16-byte Uint8Array")
    ELSE Ok(Let(ByteArray,
                LAMBDA roundKeys1 :
                    Let(Block,
                        LAMBDA encryptedTweak :
                            XtsDecryptWhitened(roundKeys1, encryptedTweak, ciphertext),
                        Let(ByteArray,
                            LAMBDA roundKeys2 : XtsDecryptMask(roundKeys2, tweak),
                            expandKey(SubSeq(key, 17, 32)))),
                expandKey(SubSeq(key, 1, 16))))

\* an output that carries the ciphertext first and the tweak last
NdxCombineCiphertextFirst(tweak, ciphertext) ==
    SetAt(SetAt(Zeros(32), ciphertext, 0), tweak, 16)

\* lines 228-231: output.set(tweak); output.set(ciphertext, 16)
NdxCombine(tweak, ciphertext) == SetAt(SetAt(Zeros(32), tweak, 0), ciphertext, 16)

\* ipcrypt-ndx.js encrypt(ip, key, tweak = null)
NdxEncrypt(ip, key, tweak, random) ==
    IF Len(key) # 32 THEN Err("Key must be a 32-byte Uint8Array")
    ELSE IF ~Falsy(tweak) /\ NotBytesOfLength(tweak, 16)
    THEN Err("Tweak must be a 16-byte Uint8Array")
    ELSE Try(ipToBytes(ip),
             LAMBDA plaintext :
                 Try(encryptBlockXts(key, TweakUsed(tweak, random), plaintext),
                     LAMBDA ciphertext : Ok(NdxCombine(TweakUsed(tweak, random), ciphertext))))

\* input.slice(0, 16)
NdxTweakOf(input) == SubSeq(input, 1, 16)

\* input.slice(16)
NdxCiphertextOf(input) == SubSeq(input, 17, Len(input))

\* ipcrypt-ndx.js decrypt(input, key)
NdxDecrypt(input, key) ==
    IF Len(input) # 32 THEN Err("Input must be a 32-byte Uint8Array")
    ELSE IF Len(key) # 32 THEN Err("Key must be a 32-byte Uint8Array")
    ELSE Try(decryptBlockXts(key, NdxTweakOf(input), NdxCiphertextOf(input)),
             LAMBDA plaintext : bytesToIp(plaintext))

(***************************************************************************)
(* Memory.  A heap is the sequence of the byte arrays allocated so far and *)
(* an array is known by its index in it; the caller's arrays come first.   *)
(* For each function, the arrays it allocates and writes, given what it    *)
(* returned: out.  returned is the index of the array it returns, 0 when   *)
(* it throws or returns a string.  expandKey, subBytes, shiftRows and      *)
(* mixColumns of core/aes.js are taken to read the key and to write the    *)
(* state they are given, and nothing else.                                 *)
(***************************************************************************)
\* new Uint8Array(...), slice(...): the new arrays take the next indexes
Allocate(heap, arrays) == heap \o arrays

\* state[i] = ..., result.set(...): the array is written in place
Store(heap, ref, bytes) == [heap EXCEPT ![ref] = bytes]

\* nothing was allocated, or what was allocated is dropped
NoArray(heap) == [heap |-> heap, returned |-> 0]

\* ipcrypt-pfx.js aesEncrypt, lines 11-12 and 36: state is a copy of input,
\* the rounds write state, state is returned
AesEncryptHeap(heap, key, input, out) ==
    [heap |-> Store(Allocate(heap, << heap[input], expandKey(heap[key]) >>),
                    Len(heap) + 1, out),
     returned |-> Len(heap) + 1]

\* a kiasu-bc that works in the caller's block
KiasuHeapInPlace(heap, key, tweak, block, out) ==
    IF ~out.ok THEN NoArray(heap)
    ELSE [heap |-> Store(Allocate(heap, << padTweak(heap[tweak]), expandKey(heap[key]) >>),
                         block, out.value),
          returned |-> block]

\* kiasu-bc.js encrypt and decrypt, lines 52-54 and 78, 103-105 and 129:
\* paddedTweak, expandedKey and state, a copy of block, are new arrays; the
\* rounds write state, state is returned
KiasuHeap(heap, key, tweak, block, out) ==
    IF ~out.ok THEN NoArray(heap)
    ELSE [heap |-> Store(Allocate(heap, << padTweak(heap[tweak]), expandKey(heap[key]),
                                           heap[block] >>),
                         Len(heap) + 3, out.value),
          returned |-> Len(heap) + 3]

\* ipcrypt-ndx.js encryptBlockXts and decryptBlockXts, lines 35-44, 69 and
\* 101, lines 131-140, 165 and 197: k1, k2, roundKeys1, roundKeys2,
\* encryptedTweak, which takes a copy of tweak and is encrypted in place,
\* and state are new arrays; state is returned
XtsHeap(heap, key, tweak, block, out) ==
    IF ~out.ok THEN NoArray(heap)
    ELSE Let(ByteArray,
             LAMBDA roundKeys2 :
                 [heap |-> Store(Store(Allocate(heap,
                                                << SubSeq(heap[key], 1, 16),
                                                   SubSeq(heap[key], 17, 32),
                                                   expandKey(SubSeq(heap[key], 1, 16)),
                                                   roundKeys2, heap[tweak], Zeros(16) >>),
                                       Len(heap) + 5,
                                       XtsEncryptMask(roundKeys2, heap[tweak])),
                                 Len(heap) + 6, out.value),
                  returned |-> Len(heap) + 6],
             expandKey(SubSeq(heap[key], 17, 32)))

\* the result of a block function, in the heap it left, is copied into a
\* new array of n bytes after the tweak: lines 37-40 of nd.encrypt, lines
\* 228-231 of ndx.encrypt
Combined(inner, tweak, n) ==
    [heap |-> Allocate(inner.heap,
                       << SetAt(SetAt(Zeros(n), inner.heap[tweak], 0),
                                inner.heap[inner.returned], Len(inner.heap[tweak])) >>),
     returned |-> Len(inner.heap) + 1]

\* the arrays encrypt of ipcrypt-nd.js and ipcrypt-ndx.js allocates before
\* it calls the block function: the tweak, when it is drawn (nd lines 26-27,
\* ndx lines 218-219), and the new array of ipToBytes (nd line 33, ndx line
\* 224); tweak is 0 when the caller supplied no byte array
TweakAndPlaintext(tweak, ip, random) ==
    (IF tweak = 0 THEN << random >> ELSE << >>) \o << ipToBytes(ip).value >>

\* where the tweak in use is: the caller's array or the one drawn
TweakRef(heap, tweak) == IF tweak = 0 THEN Len(heap) + 1 ELSE tweak

\* where the plaintext is: the last array allocated
PlaintextRef(heap, tweak) == Len(heap) + (IF tweak = 0 THEN 2 ELSE 1)

\* ipcrypt-nd.js encrypt, lines 25-40
NdEncryptHeap(heap, key, tweak, ip, random, out) ==
    IF ~out.ok THEN NoArray(heap)
    ELSE Combined(KiasuHeap(Allocate(heap, TweakAndPlaintext(tweak, ip, random)),
                            key, TweakRef(heap, tweak),
                            PlaintextRef(heap, tweak),
                            Ok(SubSeq(out.value, 9, 24))),
                  TweakRef(heap, tweak), 24)

\* ipcrypt-ndx.js encrypt, lines 218-231, likewise
NdxEncryptHeap(heap, key, tweak, ip, random, out) ==
    IF ~out.ok THEN NoArray(heap)
    ELSE Combined(XtsHeap(Allocate(heap, TweakAndPlaintext(tweak, ip, random)),
                          key, TweakRef(heap, tweak),
                          PlaintextRef(heap, tweak),
                          Ok(SubSeq(out.value, 17, 32))),
                  TweakRef(heap, tweak), 32)

\* ipcrypt-nd.js decrypt, lines 62-67: tweak and ciphertext are slices, new
\* arrays; the block decryptBlock returns is printed as a string
NdDecryptHeap(heap, key, encryptedData, out) ==
    IF ~out.ok THEN NoArray(heap)
    ELSE NoArray(KiasuHeap(Allocate(heap, << NdTweakOf(heap[encryptedData]),
                                             NdCiphertextOf(heap[encryptedData]) >>),
                           key, Len(heap) + 1, Len(heap) + 2,
                           ipToBytes(out.value)).heap)

\* ipcrypt-ndx.js decrypt, lines 252-255, likewise
NdxDecryptHeap(heap, key, input, out) ==
    IF ~out.ok THEN NoArray(heap)
    ELSE NoArray(XtsHeap(Allocate(heap, << NdxTweakOf(heap[input]),
                                           NdxCiphertextOf(heap[input]) >>),
                         key, Len(heap) + 1, Len(heap) + 2,
                         ipToBytes(out.value)).heap)

\* ipcrypt-deterministic.js encrypt and decrypt, lines 30-33 and 57, lines
\* 80-83 and 108: state is the new array of ipToBytes and is written by the
\* rounds, expandedKey is a new array; the state is printed as a string
DetHeap(heap, key, out) ==
    IF ~out.ok THEN NoArray(heap)
    ELSE NoArray(Allocate(heap, << ipToBytes(out.value).value, expandKey(heap[key]) >>))

\* ipcrypt-pfx.js encrypt and decrypt: K1 and K2 are slices of the key
\* (lines 138-139, 215-216), bytes16 is the new array of ipToBytes,
\* encrypted resp. decrypted and paddedPrefix are new arrays (lines 150 and
\* 164-169) and hold what the loop left in them.  The arrays of the
\* iterations (e1, e2, e and the shifted register) are those of aesEncrypt
\* and shiftLeftOneBit, which return new arrays.
PfxHeap(heap, key, ip, run) ==
    IF ~run.out.ok THEN NoArray(heap)
    ELSE NoArray(Allocate(heap, << SubSeq(heap[key], 1, 16), SubSeq(heap[key], 17, 32),
                                   ipToBytes(ip).value, ipToBytes(run.out.value).value,
                                   Last(run.states).paddedPrefix >>))
(***************************************************************************)
(* The inputs of the calls.  Keys, tweaks and blocks are byte sequences,   *)
(* addresses are strings.                                                  *)
(***************************************************************************)
\* 0123456789abcdeffedcba9876543210 1032547698badcfeefcdab8967452301
Key32 ==
    << 1, 35, 69, 103, 137, 171, 205, 239, 254, 220, 186, 152, 118, 84, 50, 16,
       16, 50, 84, 118, 152, 186, 220, 254, 239, 205, 171, 137, 103, 69, 35, 1 >>

Key16 == SubSeq(Key32, 1, 16)

\* 2b7e151628aed2a6abf7158809cf4f3c
Key16B == << 43, 126, 21, 22, 40, 174, 210, 166, 171, 247, 21, 136, 9, 207, 79, 60 >>

Key32B == Key16B \o Key16

\* the two halves are equal byte for byte
Key32EqualHalves == Key16 \o Key16

\* the two halves differ in their last byte only, resp. their first byte only
Key32LastByte == Key16 \o [Key16 EXCEPT ![16] = 17]
Key32FirstByte == Key16 \o [Key16 EXCEPT ![1] = 0]

KeyShort == << 1, 2, 3 >>

\* 08e0c289bff23b7c
Tweak8 == << 8, 224, 194, 137, 191, 242, 59, 124 >>
Tweak8B == << 0, 0, 0, 0, 0, 0, 0, 0 >>

\* 21bd1834bc088cd2b4ecbe30b70898d7
Tweak16 == << 33, 189, 24, 52, 188, 8, 140, 210, 180, 236, 190, 48, 183, 8, 152, 215 >>
Tweak16B == << 255, 255, 255, 255, 255, 255, 255, 255, 255, 255, 255, 255, 255, 255, 255, 255 >>

\* what the random source may return for 8 and for 16 bytes
Random8 == { Tweak8, Tweak8B, << 255, 254, 253, 252, 251, 250, 249, 248 >> }
Random16 == { Tweak16, Tweak16B }

\* 16-byte blocks: 192.0.2.1 as a mapped address, 2001:db8::1, all ones
Blocks ==
    { << 0, 0, 0, 0, 0, 0, 0, 0, 0, 0, 255, 255, 192, 0, 2, 1 >>,
      << 32, 1, 13, 184, 0, 0, 0, 0, 0, 0, 0, 0, 0, 0, 0, 1 >>,
      Tweak16B }

\* an address outside the mapped range that encrypts, under Key32, to a
\* block with the mapped prefix
UnmappedToMapped == "8a24:2dac:3f51:6c45:3203:699:adc8:6381"

\* the mapped address that encrypts, under Key32, to the same block
MappedToSame == "189.11.173.104"

\* an address whose first 96 bits differ from the mapped prefix in one bit
NearlyMapped == "0:0:0:0:1:ffff:102:304"

PfxEncryptArgs ==
    { [key |-> Key32, input |-> ip] :
        ip \in { "10.0.0.47", "10.0.0.129", "192.0.2.1", "2001:db8::1", "2001:db8::2",
                 UnmappedToMapped, MappedToSame, NearlyMapped, "not an address" } }
    \cup { [key |-> k, input |-> "10.0.0.47"] :
             k \in { Key32EqualHalves, Key32LastByte, KeyShort } }

PfxDecryptArgs ==
    { [key |-> k, input |-> "1.2.3.4"] : k \in { Key32EqualHalves, Key32FirstByte } }

\* the input block of appendix B of FIPS-197, 3243f6a8885a308d313198a2e0370734
Fips197Plaintext == "3243:f6a8:885a:308d:3131:98a2:e037:734"

DetEncryptArgs ==
    { [key |-> k, input |-> ip] :
        k \in { Key16, Key16B, KeyShort },
        ip \in { "0.0.0.0", "192.0.2.1", "255.255.255.255", "2001:db8::1",
                 "2001:DB8:0:0:0:0:0:1", Fips197Plaintext, "not an address" } }

DetDecryptArgs == { [key |-> Key16, input |-> "bde9:6789:d353:824c:d7c6:f58a:6bd2:26eb"] }

KiasuArgs ==
    { [key |-> k, tweak |-> t, input |-> b] :
        k \in { Key16, Key16B }, t \in { Tweak8, Tweak8B }, b \in Blocks }
    \cup { [key |-> KeyShort, tweak |-> Tweak8, input |-> Tweak16],
           [key |-> Key16, tweak |-> Tweak16, input |-> Tweak16],
           [key |-> Key16, tweak |-> Tweak8, input |-> Tweak8] }

NdEncryptArgs ==
    { [key |-> Key16, tweak |-> t, input |-> ip] :
        t \in { NoTweak, Uint8Array(Tweak8), Uint8Array(Tweak16) },
        ip \in { "192.0.2.1", "2001:db8::1" } }
    \cup { [key |-> KeyShort, tweak |-> NoTweak, input |-> "192.0.2.1"],
           [key |-> Key16, tweak |-> NoTweak, input |-> "not an address"] }

NdDecryptArgs == { [key |-> Key16, input |-> Tweak16], [key |-> Key16B, input |-> Tweak8 \o Tweak16] }

XtsArgs ==
    { [key |-> k, tweak |-> t, input |-> b] :
        k \in { Key32, Key32B }, t \in { Tweak16, Tweak16B }, b \in Blocks }
    \cup { [key |-> Key16, tweak |-> Tweak16, input |-> Tweak16],
           [key |-> Key32, tweak |-> Tweak8, input |-> Tweak16],
           [key |-> Key32, tweak |-> Tweak16, input |-> Tweak8] }

NdxEncryptArgs ==
    { [key |-> Key32, tweak |-> t, input |-> ip] :
        t \in { NoTweak, Uint8Array(Tweak16), Uint8Array(Tweak8) },
        ip \in { "192.0.2.1", "2001:db8::1" } }
    \cup { [key |-> Key16, tweak |-> NoTweak, input |-> "192.0.2.1"],
           [key |-> Key32, tweak |-> NoTweak, input |-> "not an address"] }

NdxDecryptArgs == { [key |-> Key32, input |-> Tweak16], [key |-> Key32B, input |-> Tweak16 \o Tweak16B] }

\* the longest history of the specifications of one construction, and of the
\* specification of all four
MaxCalls == 2
MaxHistory == 3

(***************************************************************************)
(* The state machine.  Every action is one call: it appends the call and   *)
(* its result to the history; no call writes IPV4_MAPPED_PREFIX.           *)
(***************************************************************************)
vars == << calls, IPV4_MAPPED_PREFIX >>

Init ==
    /\ calls = << >>
    /\ IPV4_MAPPED_PREFIX = << 0, 0, 0, 0, 0, 0, 0, 0, 0, 0, 255, 255 >>

\* the call is made: fn(input, key, tweak), with random drawn by it if it
\* asked the random source, returns out; states are the states its bit loop
\* went through, if it has one and entered it; memory is the heap it leaves,
\* in which the caller's byte arrays come first, and the array it returns
Record(fn, a, tweak, random, out, states, memory) ==
    /\ calls' = Append(calls, [fn |-> fn, key |-> a.key, input |-> a.input,
                               tweak |-> tweak, random |-> random, out |-> out,
                               states |-> states, heap |-> memory.heap,
                               returned |-> memory.returned])
    /\ UNCHANGED IPV4_MAPPED_PREFIX

\* the number of AES block encryptions or decryptions a call made: pfx makes
\* two in each iteration of its loop; encryptBlockXts and decryptBlockXts
\* make one under K2 and one under K1, det, kiasu-bc and aesEncrypt one; a call
\* that throws has made none, every test being made before the first round
AesPasses(call) ==
    IF call.fn \in { "pfx.encrypt", "pfx.decrypt" }
    THEN IF call.states = << >> THEN 0 ELSE Last(call.states).aesCalls
    ELSE IF ~call.out.ok THEN 0
    ELSE IF call.fn \in { "encryptBlockXts", "decryptBlockXts", "ndx.encrypt", "ndx.decrypt" }
    THEN 2
    ELSE 1

\* what the successful calls of fn in the history returned, as arguments of
\* the inverse call
Returned(fn) ==
    { [key |-> calls[i].key, input |-> calls[i].out.value] :
        i \in { j \in 1..Len(calls) : calls[j].fn = fn /\ calls[j].out.ok } }

ReturnedTweaked(fn) ==
    { [key |-> calls[i].key, tweak |-> calls[i].tweak.bytes, input |-> calls[i].out.value] :
        i \in { j \in 1..Len(calls) : calls[j].fn = fn /\ calls[j].out.ok } }

\* the array the caller passed as tweak, if it passed one
CallerTweak(tweak) == IF tweak.typeof = "Uint8Array" THEN << tweak.bytes >> ELSE << >>

\* a function without a bit loop returned or threw out
NoLoop(out) == [out |-> out, states |-> << >>]

\* the call is made and recorded with the heap it leaves: run is what it
\* returns and the states of its loop, Heap the arrays it allocates and
\* writes, given that
RecordRun(fn, a, tweak, random, run, Heap(_)) ==
    Record(fn, a, tweak, random, run.out, run.states, Heap(run))

PfxEncryptCall(args, bound) ==
    /\ Len(calls) < bound
    /\ \E a \in args :
          RecordRun("pfx.encrypt", a, NoTweak, << >>, PfxEncryptRun(a.input, a.key),
                    LAMBDA run : PfxHeap(<< a.key >>, 1, a.input, run))

PfxDecryptCall(args, bound) ==
    /\ Len(calls) < bound
    /\ \E a \in args \cup Returned("pfx.encrypt") :
          RecordRun("pfx.decrypt", a, NoTweak, << >>, PfxDecryptRun(a.input, a.key),
                    LAMBDA run : PfxHeap(<< a.key >>, 1, a.input, run))

\* aesEncrypt of ipcrypt-pfx.js, called on a key and a block
AesEncryptCall(args, bound) ==
    /\ Len(calls) < bound
    /\ \E a \in args :
          RecordRun("aesEncrypt", a, NoTweak, << >>,
                    NoLoop(Ok(aesEncrypt(a.key, a.input))),
                    LAMBDA run : AesEncryptHeap(<< a.key, a.input >>, 1, 2, run.out.value))

DetEncryptCall(args, bound) ==
    /\ Len(calls) < bound
    /\ \E a \in args :
          RecordRun("det.encrypt", a, NoTweak, << >>, NoLoop(DetEncrypt(a.input, a.key)),
                    LAMBDA run : DetHeap(<< a.key >>, 1, run.out))

DetDecryptCall(args, bound) ==
    /\ Len(calls) < bound
    /\ \E a \in args \cup Returned("det.encrypt") :
          RecordRun("det.decrypt", a, NoTweak, << >>, NoLoop(DetDecrypt(a.input, a.key)),
                    LAMBDA run : DetHeap(<< a.key >>, 1, run.out))

KiasuEncryptCall(args, bound) ==
    /\ Len(calls) < bound
    /\ \E a \in args :
          RecordRun("kiasu.encrypt", a, Uint8Array(a.tweak), << >>,
                    NoLoop(KiasuEncrypt(a.key, a.tweak, a.input)),
                    LAMBDA run : KiasuHeap(<< a.key, a.tweak, a.input >>, 1, 2, 3, run.out))

KiasuDecryptCall(args, bound) ==
    /\ Len(calls) < bound
    /\ \E a \in args \cup ReturnedTweaked("kiasu.encrypt") :
          RecordRun("kiasu.decrypt", a, Uint8Array(a.tweak), << >>,
                    NoLoop(KiasuDecrypt(a.key, a.tweak, a.input)),
                    LAMBDA run : KiasuHeap(<< a.key, a.tweak, a.input >>, 1, 2, 3, run.out))

NdEncryptCall(args, bound) ==
    /\ Len(calls) < bound
    /\ \E a \in args, random \in Random8 :
          RecordRun("nd.encrypt", a, a.tweak, IF Falsy(a.tweak) THEN random ELSE << >>,
                    NoLoop(NdEncrypt(a.input, a.key, a.tweak, random)),
                    LAMBDA run :
                        NdEncryptHeap(<< a.key >> \o CallerTweak(a.tweak), 1,
                                      Len(CallerTweak(a.tweak)) * 2, a.input,
                                      random, run.out))

NdDecryptCall(args, bound) ==
    /\ Len(calls) < bound
    /\ \E a \in args \cup Returned("nd.encrypt") :
          RecordRun("nd.decrypt", a, NoTweak, << >>, NoLoop(NdDecrypt(a.input, a.key)),
                    LAMBDA run : NdDecryptHeap(<< a.key, a.input >>, 1, 2, run.out))

XtsEncryptCall(args, bound) ==
    /\ Len(calls) < bound
    /\ \E a \in args :
          RecordRun("encryptBlockXts", a, Uint8Array(a.tweak), << >>,
                    NoLoop(encryptBlockXts(a.key, a.tweak, a.input)),
                    LAMBDA run : XtsHeap(<< a.key, a.tweak, a.input >>, 1, 2, 3, run.out))

XtsDecryptCall(args, bound) ==
    /\ Len(calls) < bound
    /\ \E a \in args \cup ReturnedTweaked("encryptBlockXts") :
          RecordRun("decryptBlockXts", a, Uint8Array(a.tweak), << >>,
                    NoLoop(decryptBlockXts(a.key, a.tweak, a.input)),
                    LAMBDA run : XtsHeap(<< a.key, a.tweak, a.input >>, 1, 2, 3, run.out))

NdxEncryptCall(args, bound) ==
    /\ Len(calls) < bound
    /\ \E a \in args, random \in Random16 :
          RecordRun("ndx.encrypt", a, a.tweak, IF Falsy(a.tweak) THEN random ELSE << >>,
                    NoLoop(NdxEncrypt(a.input, a.key, a.tweak, random)),
                    LAMBDA run :
                        NdxEncryptHeap(<< a.key >> \o CallerTweak(a.tweak), 1,
                                      Len(CallerTweak(a.tweak)) * 2, a.input,
                                      random, run.out))

NdxDecryptCall(args, bound) ==
    /\ Len(calls) < bound
    /\ \E a \in args \cup Returned("ndx.encrypt") :
          RecordRun("ndx.decrypt", a, NoTweak, << >>, NoLoop(NdxDecrypt(a.input, a.key)),
                    LAMBDA run : NdxDecryptHeap(<< a.key, a.input >>, 1, 2, run.out))

\* the prefix-preserving construction alone
NextPfx ==
    \/ PfxEncryptCall(PfxEncryptArgs, MaxCalls)
    \/ PfxDecryptCall(PfxDecryptArgs, MaxCalls)

SpecPfx == Init /\ [][NextPfx]_vars

\* the deterministic construction alone
NextDet ==
    \/ DetEncryptCall(DetEncryptArgs, MaxCalls)
    \/ DetDecryptCall(DetDecryptArgs, MaxCalls)

SpecDet == Init /\ [][NextDet]_vars

\* the tweakable block cipher of the single-key construction
NextKiasu ==
    \/ KiasuEncryptCall(KiasuArgs, MaxCalls)
    \/ KiasuDecryptCall(KiasuArgs, MaxCalls)

SpecKiasu == Init /\ [][NextKiasu]_vars

\* the block functions of the dual-key construction
NextXts ==
    \/ XtsEncryptCall(XtsArgs, MaxCalls)
    \/ XtsDecryptCall(XtsArgs, MaxCalls)

SpecXts == Init /\ [][NextXts]_vars

\* the two tweakable constructions
NextTweaked ==
    \/ NdEncryptCall(NdEncryptArgs, MaxCalls)
    \/ NdDecryptCall(NdDecryptArgs, MaxCalls)
    \/ NdxEncryptCall(NdxEncryptArgs, MaxCalls)
    \/ NdxDecryptCall(NdxDecryptArgs, MaxCalls)

SpecTweaked == Init /\ [][NextTweaked]_vars

(***************************************************************************)
(* Calls with arguments of every kind: byte arrays one byte short of, one  *)
(* byte over, half and twice the required length and empty ones, strings   *)
(* that are no addresses, and tweaks that are no byte arrays.              *)
(***************************************************************************)
\* the first n bytes of a 48-byte array
Cut(n) == SubSeq(Key32 \o Key16B, 1, n)

Mapped192 == << 0, 0, 0, 0, 0, 0, 0, 0, 0, 0, 255, 255, 192, 0, 2, 1 >>

AnyKiasuArgs ==
    { [key |-> Cut(k), tweak |-> Tweak8, input |-> Mapped192] : k \in { 0, 15, 16, 17, 32 } }
    \cup { [key |-> Key16, tweak |-> Cut(t), input |-> Mapped192] : t \in { 0, 7, 9, 16 } }
    \cup { [key |-> Key16, tweak |-> Tweak8, input |-> Cut(b)] : b \in { 0, 15, 16, 17, 24 } }
    \cup { [key |-> Cut(17), tweak |-> Cut(16), input |-> Cut(8)] }

AnyXtsArgs ==
    { [key |-> Cut(k), tweak |-> Tweak16, input |-> Mapped192] : k \in { 0, 16, 31, 32, 33 } }
    \cup { [key |-> Key32, tweak |-> Cut(t), input |-> Mapped192] : t \in { 0, 8, 15, 17 } }
    \cup { [key |-> Key32, tweak |-> Tweak16, input |-> Cut(b)] : b \in { 0, 15, 16, 17, 32 } }
    \cup { [key |-> Cut(16), tweak |-> Cut(8), input |-> Cut(8)],
           [key |-> Key32EqualHalves, tweak |-> Tweak16, input |-> Mapped192],
           [key |-> Key32B, tweak |-> Tweak16B, input |-> Tweak16] }

\* values passed as tweak that are no byte arrays: 0, NaN, "", false and
\* null convert to false, the others to true
NoByteArrays ==
    { JsValue("number", "0"), JsValue("number", "NaN"), JsValue("string", ""),
      JsValue("boolean", "false"), JsValue("object", "null"),
      JsValue("number", "8"), JsValue("string", "12345678"), JsValue("boolean", "true"),
      JsValue("object", "[1,2,3,4,5,6,7,8]") }

AnyNdEncryptArgs ==
    { [key |-> Key16, tweak |-> t, input |-> "192.0.2.1"] :
        t \in { NoTweak } \cup { Uint8Array(Cut(n)) : n \in { 0, 7, 8, 9, 16 } }
               \cup NoByteArrays }
    \cup { [key |-> Cut(k), tweak |-> t, input |-> ip] :
             k \in { 15, 32 }, t \in { NoTweak, Uint8Array(Cut(9)) },
             ip \in { "192.0.2.1", "not an address" } }

AnyNdxEncryptArgs ==
    { [key |-> Key32, tweak |-> t, input |-> "192.0.2.1"] :
        t \in { NoTweak } \cup { Uint8Array(Cut(n)) : n \in { 0, 8, 15, 16, 17 } }
               \cup NoByteArrays }
    \cup { [key |-> Cut(k), tweak |-> t, input |-> ip] :
             k \in { 16, 33 }, t \in { NoTweak, Uint8Array(Cut(17)) },
             ip \in { "192.0.2.1", "not an address" } }
    \cup { [key |-> Key32EqualHalves, tweak |-> t, input |-> "2001:db8::1"] :
             t \in { NoTweak, Uint8Array(Tweak16) } }

AnyNdDecryptArgs ==
    { [key |-> Cut(k), input |-> Cut(n)] : k \in { 15, 16 }, n \in { 0, 16, 23, 24, 25, 32 } }

AnyNdxDecryptArgs ==
    { [key |-> Cut(k), input |-> Cut(n)] : k \in { 16, 32 }, n \in { 0, 16, 24, 31, 32, 33 } }

AnyPfxArgs ==
    { [key |-> Cut(k), input |-> ip] :
        k \in { 0, 16, 31, 33 }, ip \in { "10.0.0.47", "not an address" } }
    \cup { [key |-> Key32, input |-> "not an address"] }
    \cup { [key |-> k, input |-> ip] :
             k \in { Key32EqualHalves, Key32EqualHalves \o << 0 >> },
             ip \in { "10.0.0.47", "not an address" } }

AesEncryptArgs == { [key |-> k, input |-> b] : k \in { Key16, Key16B }, b \in Blocks }

AnyDetArgs ==
    { [key |-> Cut(k), input |-> ip] :
        k \in { 0, 15, 16, 17, 32 }, ip \in { "10.0.0.47", "2001:db8::1", "not an address" } }

\* calls of pfx.encrypt that enter the bit loop
LongPfxArgs == { [key |-> Key32, input |-> ip] : ip \in { "10.0.0.47", "2001:db8::1" } }

\* the calls made after the first one, besides the inverse calls on what
\* the first one returned: one call that is refused of pfx.decrypt,
\* det.encrypt, kiasu-bc encrypt, nd.decrypt and ndx.decrypt, and the call
\* of nd.encrypt with a tweak of 8 bytes
LaterPfxArgs == { a \in AnyPfxArgs : Len(a.key) = 31 /\ a.input = "10.0.0.47" }
LaterDetArgs == { a \in AnyDetArgs : Len(a.key) = 17 /\ a.input = "not an address" }
LaterKiasuArgs == { a \in AnyKiasuArgs : Len(a.key) = 16 /\ Len(a.tweak) = 7 }
LaterNdEncryptArgs == { a \in AnyNdEncryptArgs : a.tweak = Uint8Array(Cut(8)) }
LaterNdDecryptArgs == { a \in AnyNdDecryptArgs : Len(a.key) = 16 /\ Len(a.input) = 25 }
LaterNdxDecryptArgs == { a \in AnyNdxDecryptArgs : Len(a.key) = 32 /\ Len(a.input) = 33 }

\* det.encrypt on the key and, as an address, the block aesEncrypt was
\* called on
DetOnAesEncryptArgs ==
    { [key |-> calls[i].key, input |-> bytesToIp(calls[i].input).value] :
        i \in { j \in 1..Len(calls) : calls[j].fn = "aesEncrypt" } }

\* the arguments of the next call: any of first when no call was made yet
FirstThen(first, later) == IF calls = << >> THEN first ELSE later

NextAny ==
    \/ PfxEncryptCall(FirstThen(AnyPfxArgs \cup LongPfxArgs, { }), MaxCalls)
    \/ PfxDecryptCall(FirstThen(AnyPfxArgs, LaterPfxArgs), MaxCalls)
    \/ AesEncryptCall(FirstThen(AesEncryptArgs, { }), MaxCalls)
    \/ DetEncryptCall(FirstThen(AnyDetArgs, LaterDetArgs \cup DetOnAesEncryptArgs), MaxCalls)
    \/ DetDecryptCall(FirstThen(AnyDetArgs, { }), MaxCalls)
    \/ KiasuEncryptCall(FirstThen(AnyKiasuArgs, LaterKiasuArgs), MaxCalls)
    \/ KiasuDecryptCall(FirstThen(AnyKiasuArgs, { }), MaxCalls)
    \/ NdEncryptCall(FirstThen(AnyNdEncryptArgs, LaterNdEncryptArgs), MaxCalls)
    \/ NdDecryptCall(FirstThen(AnyNdDecryptArgs, LaterNdDecryptArgs), MaxCalls)
    \/ XtsEncryptCall(FirstThen(AnyXtsArgs, { }), MaxCalls)
    \/ XtsDecryptCall(FirstThen(AnyXtsArgs, { }), MaxCalls)
    \/ NdxEncryptCall(FirstThen(AnyNdxEncryptArgs, { }), MaxCalls)
    \/ NdxDecryptCall(FirstThen(AnyNdxDecryptArgs, LaterNdxDecryptArgs), MaxCalls)

SpecAny == Init /\ [][NextAny]_vars

\* all four constructions, on few inputs and a longer history
FewPfx == { [key |-> Key32, input |-> "10.0.0.47"], [key |-> Key32EqualHalves, input |-> "10.0.0.47"] }
FewDet == { [key |-> Key16, input |-> "10.0.0.47"], [key |-> Key16, input |-> "not an address"] }
FewNd == { [key |-> Key16, tweak |-> t, input |-> "10.0.0.47"] : t \in { NoTweak, Uint8Array(Tweak8) } }
FewNdx == { [key |-> Key32, tweak |-> t, input |-> "10.0.0.47"] : t \in { NoTweak, Uint8Array(Tweak16) } }

Next ==
    \/ PfxEncryptCall(FewPfx, MaxHistory)
    \/ PfxDecryptCall({ }, MaxHistory)
    \/ DetEncryptCall(FewDet, MaxHistory)
    \/ DetDecryptCall({ }, MaxHistory)
    \/ NdEncryptCall(FewNd, MaxHistory)
    \/ NdDecryptCall({ }, MaxHistory)
    \/ NdxEncryptCall(FewNdx, MaxHistory)
    \/ NdxDecryptCall({ }, MaxHistory)

Spec == Init /\ [][Next]_vars

(***************************************************************************)
(* The helper functions, called on their own: padTweak of kiasu-bc.js,     *)
(* shiftLeftOneBit and setBit of ipcrypt-pfx.js, bytesToIp and ipToBytes.  *)
(* The first call of a history takes its argument from a set of inputs,    *)
(* the second is made on what the first returned.                          *)
(***************************************************************************)
\* a call that returns a new array: out, when it did not throw
NewArrayHeap(heap, out) ==
    IF ~out.ok THEN NoArray(heap)
    ELSE [heap |-> Allocate(heap, << out.value >>), returned |-> Len(heap) + 1]

\* the argument of a helper that takes no key
OnlyInput(v) == [key |-> << >>, input |-> v]

\* tweaks: the test tweak, all zero, one byte set, and two of a wrong length
PadTweakArgs ==
    { OnlyInput(t) : t \in { Tweak8, Tweak8B, Cut(7), Cut(9) }
                           \cup { SetAt(Zeros(8), << 255 >>, k) : k \in 0..7 } }

PadTweakCall(args, bound) ==
    /\ Len(calls) < bound
    /\ \E a \in args :
          RecordRun("padTweak", a, NoTweak, << >>, NoLoop(padTweakOrThrow(a.input)),
                    LAMBDA run : NewArrayHeap(<< a.input >>, run.out))

\* registers: a single bit at each of the 128 positions, every bit set,
\* the top bit of every byte set, and the blocks of 192.0.2.1 and 2001:db8::1
ShiftArgs ==
    { OnlyInput(b) : b \in { setBit(Zeros(16), position, 1) : position \in 0..127 }
                           \cup { Repeat(255, 16) \o << >>, Repeat(128, 16) \o << >> }
                           \cup Blocks }

ShiftLeftOneBitCall(args, bound) ==
    /\ Len(calls) < bound
    /\ \E a \in args :
          RecordRun("shiftLeftOneBit", a, NoTweak, << >>,
                    NoLoop(Ok(shiftLeftOneBit(a.input))),
                    LAMBDA run : NewArrayHeap(<< a.input >>, run.out))

\* setBit(data, position, value) on an array of zeros and on one of ones
SetBitArgs ==
    { OnlyInput([data |-> d, position |-> p, value |-> v]) :
        d \in { Zeros(16), Repeat(255, 16) \o << >> }, p \in { 0, 7, 8, 127 }, v \in 0..1 }

\* setBit(result, 0, value) on the arrays shiftLeftOneBit has returned
SetBitOnShifted ==
    { OnlyInput([data |-> r.input, position |-> 0, value |-> v]) :
        r \in Returned("shiftLeftOneBit"), v \in 0..1 }

\* setBit returns nothing: recorded is the array as the call leaves it,
\* which is the caller's array, written in place
SetBitCall(args, bound) ==
    /\ Len(calls) < bound
    /\ \E a \in args :
          RecordRun("setBit", a, NoTweak, << >>,
                    NoLoop(Ok(setBit(a.input.data, a.input.position, a.input.value))),
                    LAMBDA run : [heap |-> Store(<< a.input.data >>, 1, run.out.value),
                                  returned |-> 0])

\* the value of the group at each place of the blocks below, when it is
\* not zero: 2001:db8:1:ff00:a:ffff:c000:201
GroupValues == << 8193, 3512, 1, 65280, 10, 65535, 49152, 513 >>

\* the 256 blocks in which each of the 8 groups is zero or the value above:
\* every place and length of a run of zero groups, the all-zero block and
\* the mapped blocks among them
ZeroRunBlocks ==
    { NewArray(16, LAMBDA i : IF zero[(i \div 2) + 1] THEN 0
                              ELSE IF i % 2 = 0 THEN GroupValues[(i \div 2) + 1] \div 256
                              ELSE GroupValues[(i \div 2) + 1] % 256) :
        zero \in [1..8 -> BOOLEAN] }

\* blocks with a single zero group, with two runs of equal length and with
\* a mapped prefix that is nearly there; what pfx.encrypt returned for
\* 2001:db8::1 and det.encrypt for 0.0.0.0; and arrays that are no blocks
OtherBlocks ==
    { << 0, 1, 0, 0, 0, 2, 0, 3, 0, 4, 0, 5, 0, 6, 0, 7 >>,
      << 0, 1, 0, 0, 0, 0, 0, 2, 0, 0, 0, 0, 0, 3, 0, 4 >>,
      << 0, 0, 0, 0, 0, 0, 0, 0, 0, 0, 255, 254, 1, 2, 3, 4 >>,
      << 0, 0, 0, 0, 0, 0, 0, 0, 0, 0, 255, 255, 255, 255, 255, 255 >>,
      << 0, 0, 0, 0, 0, 0, 0, 0, 0, 0, 255, 255, 0, 0, 0, 0 >>,
      << 193, 128, 93, 212, 37, 135, 53, 36, 48, 171, 250, 101, 106, 182, 15, 136 >>,
      << 189, 233, 103, 137, 211, 83, 130, 76, 215, 198, 245, 138, 107, 210, 38, 235 >>,
      Cut(15), Cut(17) }

BytesToIpCall(args, bound) ==
    /\ Len(calls) < bound
    /\ \E a \in args :
          RecordRun("bytesToIp", a, NoTweak, << >>, NoLoop(bytesToIp(a.input)),
                    LAMBDA run : NoArray(<< a.input >>))

\* addresses written in other ways than bytesToIp writes them, and strings
\* that are no addresses
IpToBytesArgs ==
    { OnlyInput(ip) : ip \in { "2001:DB8:0:0:0:0:0:1", "0:0:0:0:0:0:0:0", "::ffff:c000:201",
                               "[2001:db8::1]", "1:2:3", "256.1.1.1", "" } }

IpToBytesCall(args, bound) ==
    /\ Len(calls) < bound
    /\ \E a \in args :
          RecordRun("ipToBytes", a, NoTweak, << >>, NoLoop(ipToBytes(a.input)),
                    LAMBDA run : NewArrayHeap(<< >>, run.out))

\* args, when the last call was one of fn
After(fn, args) == IF Last(calls).fn = fn THEN args ELSE { }

NextBytes ==
    \/ PadTweakCall(FirstThen(PadTweakArgs, After("padTweak", PadTweakArgs)), MaxCalls)
    \/ ShiftLeftOneBitCall(FirstThen(ShiftArgs, { }), MaxCalls)
    \/ SetBitCall(FirstThen(SetBitArgs, SetBitOnShifted), MaxCalls)
    \/ BytesToIpCall(FirstThen({ OnlyInput(b) : b \in ZeroRunBlocks \cup OtherBlocks },
                               { OnlyInput(b) : b \in OtherBlocks }), MaxCalls)
    \/ IpToBytesCall(FirstThen(IpToBytesArgs, Returned("bytesToIp")), MaxCalls)

SpecBytes == Init /\ [][NextBytes]_vars

(***************************************************************************)
(* Properties.  They read the history: call i is calls[i].                 *)
(***************************************************************************)
\* call i is a call of fn that returned
Returns(i, fn) == calls[i].fn = fn /\ calls[i].out.ok

\* call j is the call of fn on what call i returned, under the same key
Inverts(j, fn, i) ==
    /\ calls[j].fn = fn
    /\ calls[j].key = calls[i].key
    /\ calls[j].input = calls[i].out.value

\* the 16-byte block of an address ipToBytes accepts
BlockOf(ip) == ipToBytes(ip).value

\* bit k of a block, bit 0 being the most significant bit of byte 0
BitAt(block, k) == (block[(k \div 8) + 1] \div Pow2[8 - (k % 8)]) % 2

\* blocks a and b agree on the n bits that start at bit from
AgreeOn(a, b, from, n) == \A k \in from..(from + n - 1) : BitAt(a, k) = BitAt(b, k)

MappedBlock(block) == SubSeq(block, 1, 12) = << 0, 0, 0, 0, 0, 0, 0, 0, 0, 0, 255, 255 >>

\* whenever blocks a and b agree on n bits from bit from, so do x and y
AgreementKept(a, b, x, y, from) ==
    \A n \in 0..(128 - from) : AgreeOn(a, b, from, n) => AgreeOn(x, y, from, n)

\* C1: for every key whose halves differ and every block b, mapped or not,
\* pfx decrypt of what pfx encrypt returned for b returns b
PfxRoundTrip ==
    \A i, j \in 1..Len(calls) :
        (Returns(i, "pfx.encrypt") /\ Inverts(j, "pfx.decrypt", i))
        => /\ calls[j].out.ok
           /\ BlockOf(calls[j].out.value) = BlockOf(calls[i].input)

\* C2: under one key, two blocks of one family that agree on their top n
\* address bits (n in 0..32 from bit 96 when both are mapped, n in 0..128
\* when neither is) are encrypted by pfx encrypt to blocks that agree on the
\* same top n bits
PfxPrefixPreservedInFamily ==
    \A i, j \in 1..Len(calls) :
        (/\ Returns(i, "pfx.encrypt") /\ Returns(j, "pfx.encrypt")
         /\ calls[i].key = calls[j].key
         /\ MappedBlock(BlockOf(calls[i].input)) = MappedBlock(BlockOf(calls[j].input)))
        => AgreementKept(BlockOf(calls[i].input), BlockOf(calls[j].input),
                         BlockOf(calls[i].out.value), BlockOf(calls[j].out.value),
                         IF MappedBlock(BlockOf(calls[i].input)) THEN 96 ELSE 0)

\* two mapped addresses that share 24 of their 32 address bits, and no
\* more, have been encrypted under one key
PfxFamilyPairEncrypted ==
    \E i, j \in 1..Len(calls) :
        /\ Returns(i, "pfx.encrypt") /\ Returns(j, "pfx.encrypt")
        /\ calls[i].key = calls[j].key
        /\ calls[i].input = "10.0.0.47" /\ calls[j].input = "10.0.0.129"
        /\ AgreeOn(BlockOf(calls[i].out.value), BlockOf(calls[j].out.value), 96, 24)

\* C3, as stated: under one key, ANY two blocks, one mapped and one not
\* included, that agree on their top n bits of the 128 are encrypted to
\* blocks that agree on their top n bits
PfxPrefixPreservedAcrossFamilies ==
    \A i, j \in 1..Len(calls) :
        (/\ Returns(i, "pfx.encrypt") /\ Returns(j, "pfx.encrypt")
         /\ calls[i].key = calls[j].key)
        => AgreementKept(BlockOf(calls[i].input), BlockOf(calls[j].input),
                         BlockOf(calls[i].out.value), BlockOf(calls[j].out.value), 0)

\* C3, amended: under one key, two blocks that are both mapped or both
\* unmapped and agree on their top n bits of the 128 are encrypted to blocks
\* that agree on their top n bits of the 128
PfxPrefixPreservedOnBlock ==
    \A i, j \in 1..Len(calls) :
        (/\ Returns(i, "pfx.encrypt") /\ Returns(j, "pfx.encrypt")
         /\ calls[i].key = calls[j].key
         /\ MappedBlock(BlockOf(calls[i].input)) = MappedBlock(BlockOf(calls[j].input)))
        => AgreementKept(BlockOf(calls[i].input), BlockOf(calls[j].input),
                         BlockOf(calls[i].out.value), BlockOf(calls[j].out.value), 0)

\* two unmapped addresses that share their top 126 bits, and no more, have
\* been encrypted under one key
PfxUnmappedPairEncrypted ==
    \E i, j \in 1..Len(calls) :
        /\ Returns(i, "pfx.encrypt") /\ Returns(j, "pfx.encrypt")
        /\ calls[i].key = calls[j].key
        /\ calls[i].input = "2001:db8::1" /\ calls[j].input = "2001:db8::2"
        /\ AgreeOn(BlockOf(calls[i].out.value), BlockOf(calls[j].out.value), 0, 126)

\* C4: pfx encrypt and pfx decrypt throw the key-halves error for every
\* 32-byte key whose first 16 bytes equal its last 16 bytes, and for no
\* 32-byte key whose halves differ in a byte
PfxHalvesCheck ==
    \A i \in 1..Len(calls) :
        (calls[i].fn \in { "pfx.encrypt", "pfx.decrypt" } /\ Len(calls[i].key) = 32)
        => ((calls[i].out = Err("The two halves of the key must be different"))
            <=> (\A b \in 1..16 : calls[i].key[b] = calls[i].key[16 + b]))

\* encrypt has thrown on a key of equal halves, and decrypt has returned on
\* a key whose halves differ in one byte only
PfxHalvesChecked ==
    \E i, j \in 1..Len(calls) :
        /\ calls[i].fn = "pfx.encrypt" /\ calls[i].key = Key32EqualHalves
        /\ ~calls[i].out.ok
        /\ Returns(j, "pfx.decrypt") /\ calls[j].key = Key32FirstByte

\* C5: for every 16-byte key, 8-byte tweak and block, kiasu-bc decrypt of
\* what kiasu-bc encrypt returned, under the same key and tweak, is the block
KiasuRoundTrip ==
    \A i, j \in 1..Len(calls) :
        (/\ Returns(i, "kiasu.encrypt") /\ Inverts(j, "kiasu.decrypt", i)
         /\ calls[j].tweak = calls[i].tweak)
        => calls[j].out = Ok(calls[i].input)

\* a block has been encrypted and its ciphertext decrypted under a tweak
\* that is not all zero
KiasuDecrypted ==
    \E i, j \in 1..Len(calls) :
        /\ Returns(i, "kiasu.encrypt") /\ Inverts(j, "kiasu.decrypt", i)
        /\ calls[j].tweak = calls[i].tweak /\ calls[i].tweak = Uint8Array(Tweak8)
        /\ calls[j].out.ok /\ calls[i].out.value # calls[i].input

\* C6: for every 32-byte key, 16-byte tweak and block, decryptBlockXts
\* computes the mask encryptBlockXts computes, the AES encryption of the
\* tweak under K2, and returns the block when it is given what
\* encryptBlockXts returned under the same key and tweak
XtsRoundTrip ==
    /\ \A i \in 1..Len(calls) :
           Returns(i, "decryptBlockXts")
           => LET roundKeys2 == expandKey(SubSeq(calls[i].key, 17, 32))
              IN  /\ XtsDecryptMask(roundKeys2, calls[i].tweak.bytes)
                       = XtsEncryptMask(roundKeys2, calls[i].tweak.bytes)
                  /\ XtsDecryptMask(roundKeys2, calls[i].tweak.bytes)
                       = aesEncrypt(SubSeq(calls[i].key, 17, 32), calls[i].tweak.bytes)
    /\ \A i, j \in 1..Len(calls) :
           (/\ Returns(i, "encryptBlockXts") /\ Inverts(j, "decryptBlockXts", i)
            /\ calls[j].tweak = calls[i].tweak)
           => calls[j].out = Ok(calls[i].input)

\* a block has been encrypted by encryptBlockXts and its ciphertext handed
\* to decryptBlockXts
XtsDecrypted ==
    \E i, j \in 1..Len(calls) :
        /\ Returns(i, "encryptBlockXts") /\ Inverts(j, "decryptBlockXts", i)
        /\ calls[j].tweak = calls[i].tweak /\ calls[j].out.ok
        /\ calls[i].out.value # calls[i].input

\* C7: for every 16-byte key and every block, deterministic decrypt of the
\* address deterministic encrypt returned yields the block that was encrypted
DetRoundTrip ==
    \A i, j \in 1..Len(calls) :
        (Returns(i, "det.encrypt") /\ Inverts(j, "det.decrypt", i))
        => /\ calls[j].out.ok
           /\ BlockOf(calls[j].out.value) = BlockOf(calls[i].input)

\* an unmapped address has been encrypted and the result decrypted
DetDecrypted ==
    \E i, j \in 1..Len(calls) :
        /\ Returns(i, "det.encrypt") /\ Inverts(j, "det.decrypt", i)
        /\ calls[i].input = "2001:db8::1" /\ calls[j].out.ok

\* C8: nd.encrypt returns 24 bytes and ndx.encrypt 32; the first 8 (16)
\* are the tweak the call used, the other 16 are what the block cipher
\* returns for the key, that tweak and the block of the address; nd.decrypt
\* and ndx.decrypt hand the block cipher the same two parts of their input
WireLayout ==
    \A i \in 1..Len(calls) :
        /\ Returns(i, "nd.encrypt")
           => LET used == IF calls[i].tweak = NoTweak THEN calls[i].random
                          ELSE calls[i].tweak.bytes
              IN  /\ Len(calls[i].out.value) = 24
                  /\ SubSeq(calls[i].out.value, 1, 8) = used
                  /\ SubSeq(calls[i].out.value, 9, 24)
                       = KiasuEncrypt(calls[i].key, used, BlockOf(calls[i].input)).value
        /\ Returns(i, "ndx.encrypt")
           => LET used == IF calls[i].tweak = NoTweak THEN calls[i].random
                          ELSE calls[i].tweak.bytes
              IN  /\ Len(calls[i].out.value) = 32
                  /\ SubSeq(calls[i].out.value, 1, 16) = used
                  /\ SubSeq(calls[i].out.value, 17, 32)
                       = encryptBlockXts(calls[i].key, used, BlockOf(calls[i].input)).value
        /\ Returns(i, "nd.decrypt")
           => BlockOf(calls[i].out.value)
                = KiasuDecrypt(calls[i].key, SubSeq(calls[i].input, 1, 8),
                               SubSeq(calls[i].input, 9, 24)).value
        /\ Returns(i, "ndx.decrypt")
           => BlockOf(calls[i].out.value)
                = decryptBlockXts(calls[i].key, SubSeq(calls[i].input, 1, 16),
                                  SubSeq(calls[i].input, 17, 32)).value

\* ndx.encrypt has returned for a supplied tweak and ndx.decrypt has
\* returned for its output
WireLayoutUsed ==
    \E i, j \in 1..Len(calls) :
        /\ Returns(i, "ndx.encrypt") /\ calls[i].tweak = Uint8Array(Tweak16)
        /\ Inverts(j, "ndx.decrypt", i) /\ calls[j].out.ok

\* C9: when nd.encrypt or ndx.encrypt is called without a tweak, whatever
\* the random source returns, decrypt of the output under the same key
\* returns the address that was encrypted
GeneratedTweakRoundTrip ==
    \A i, j \in 1..Len(calls) :
        (/\ calls[i].tweak = NoTweak
         /\ \/ Returns(i, "nd.encrypt") /\ Inverts(j, "nd.decrypt", i)
            \/ Returns(i, "ndx.encrypt") /\ Inverts(j, "ndx.decrypt", i))
        => /\ calls[j].out.ok
           /\ BlockOf(calls[j].out.value) = BlockOf(calls[i].input)

\* nd.encrypt has drawn a tweak that is not all zero, and nd.decrypt has
\* returned for its output
GeneratedTweakDecrypted ==
    \E i, j \in 1..Len(calls) :
        /\ Returns(i, "nd.encrypt") /\ calls[i].tweak = NoTweak
        /\ calls[i].random = Tweak8
        /\ Inverts(j, "nd.decrypt", i) /\ calls[j].out.ok

\* C10: two calls of one function with equal arguments (the key, the input
\* and, for nd.encrypt and ndx.encrypt, the byte array supplied as tweak)
\* have equal results, whatever calls were made before or between them,
\* and IPV4_MAPPED_PREFIX is what it was at the start
Deterministic ==
    /\ IPV4_MAPPED_PREFIX = << 0, 0, 0, 0, 0, 0, 0, 0, 0, 0, 255, 255 >>
    /\ \A i, j \in 1..Len(calls) :
           (/\ calls[i].fn = calls[j].fn
            /\ calls[i].key = calls[j].key
            /\ calls[i].input = calls[j].input
            /\ calls[i].tweak = calls[j].tweak
            /\ calls[i].fn \in { "nd.encrypt", "ndx.encrypt" }
               => calls[i].tweak.typeof = "Uint8Array")
           => calls[i].out = calls[j].out

\* nd.encrypt has been called twice with one supplied tweak, with a failing
\* call of another construction between the two
RepeatedAfterOtherCalls ==
    /\ Len(calls) = 3
    /\ Returns(1, "nd.encrypt") /\ calls[1].tweak = Uint8Array(Tweak8)
    /\ calls[2].fn = "pfx.encrypt" /\ ~calls[2].out.ok
    /\ Returns(3, "nd.encrypt") /\ calls[3].tweak = Uint8Array(Tweak8)


\* the key, tweak and input lengths of call i
Sizes(i) == << Len(calls[i].key), Len(calls[i].tweak.bytes), Len(calls[i].input) >>

\* call i threw
Throws(i) == ~calls[i].out.ok

\* C11: kiasu-bc encrypt and decrypt fail whenever the key is not 16 bytes,
\* the tweak not 8 or the block not 16; nd.encrypt fails for a byte array
\* supplied as tweak of any length other than 8; nd.decrypt fails for an
\* input of any length other than 24
SingleKeySizesChecked ==
    \A i \in 1..Len(calls) :
        /\ (calls[i].fn \in { "kiasu.encrypt", "kiasu.decrypt" } /\ Sizes(i) # << 16, 8, 16 >>)
           => Throws(i)
        /\ (/\ calls[i].fn = "nd.encrypt" /\ calls[i].tweak.typeof = "Uint8Array"
            /\ Len(calls[i].tweak.bytes) # 8)
           => Throws(i)
        /\ (calls[i].fn = "nd.decrypt" /\ Len(calls[i].input) # 24) => Throws(i)

\* kiasu-bc encrypt has thrown for a tweak of 7 bytes with a key and a block
\* of 16, and nd.decrypt for an input of 25 bytes
SingleKeySizesRefused ==
    \E i, j \in 1..Len(calls) :
        /\ calls[i].fn = "kiasu.encrypt" /\ Sizes(i) = << 16, 7, 16 >> /\ Throws(i)
        /\ calls[j].fn = "nd.decrypt" /\ Len(calls[j].input) = 25 /\ Throws(j)

\* C12: encryptBlockXts and decryptBlockXts fail whenever the key is not 32
\* bytes, the tweak not 16 or the block not 16; ndx.decrypt fails for an
\* input of any length other than 32
DualKeySizesChecked ==
    \A i \in 1..Len(calls) :
        /\ (calls[i].fn \in { "encryptBlockXts", "decryptBlockXts" }
            /\ Sizes(i) # << 32, 16, 16 >>)
           => Throws(i)
        /\ (calls[i].fn = "ndx.decrypt" /\ Len(calls[i].input) # 32) => Throws(i)

\* decryptBlockXts has thrown for a block of 17 bytes with a key of 32 and a
\* tweak of 16, and ndx.decrypt for an input of 33 bytes with a key of 32
DualKeySizesRefused ==
    \E i, j \in 1..Len(calls) :
        /\ calls[i].fn = "decryptBlockXts" /\ Sizes(i) = << 32, 16, 17 >> /\ Throws(i)
        /\ calls[j].fn = "ndx.decrypt" /\ Len(calls[j].input) = 33
        /\ Len(calls[j].key) = 32 /\ Throws(j)

\* C13: a call of pfx with a key that is not 32 bytes throws the key-length
\* error, never the key-halves error, and a call of det with a key that is
\* not 16 bytes throws its key-length error, whether or not the address is
\* one ipToBytes accepts
KeyLengthCheckedFirst ==
    \A i \in 1..Len(calls) :
        /\ (calls[i].fn \in { "pfx.encrypt", "pfx.decrypt" } /\ Len(calls[i].key) # 32)
           => calls[i].out = Err("Key must be 32 bytes")
        /\ (calls[i].fn \in { "det.encrypt", "det.decrypt" } /\ Len(calls[i].key) # 16)
           => calls[i].out = Err("Key must be a 16-byte Uint8Array")

\* pfx.encrypt has been called with a key of 33 bytes whose first two
\* 16-byte parts are equal, and det.encrypt with a key of 17 bytes, both on
\* a string that is no address
KeyLengthRefusedBeforeAddress ==
    \E i, j \in 1..Len(calls) :
        /\ calls[i].fn = "pfx.encrypt" /\ calls[i].key = Key32EqualHalves \o << 0 >>
        /\ ~ipToBytes(calls[i].input).ok /\ Throws(i)
        /\ calls[j].fn = "det.encrypt" /\ Len(calls[j].key) = 17
        /\ ~ipToBytes(calls[j].input).ok /\ Throws(j)

\* the tweak argument of call i is left out: undefined, or the null that
\* ndx.encrypt takes as its default
TweakAbsent(i) ==
    \/ calls[i].tweak.typeof = "undefined"
    \/ calls[i].tweak.typeof = "object" /\ calls[i].tweak.text = "null"

\* C14: nd.encrypt and ndx.encrypt, called with a key of the right length,
\* throw the tweak-size error for every supplied tweak that is not a byte
\* array of exactly 8, resp. 16, bytes, and draw no tweak in its place
SuppliedTweakNeverReplaced ==
    \A i \in 1..Len(calls) :
        /\ (/\ calls[i].fn = "nd.encrypt" /\ Len(calls[i].key) = 16
            /\ ~TweakAbsent(i) /\ NotBytesOfLength(calls[i].tweak, 8))
           => /\ calls[i].out = Err("Tweak must be an 8-byte Uint8Array")
              /\ calls[i].random = << >>
        /\ (/\ calls[i].fn = "ndx.encrypt" /\ Len(calls[i].key) = 32
            /\ ~TweakAbsent(i) /\ NotBytesOfLength(calls[i].tweak, 16))
           => /\ calls[i].out = Err("Tweak must be a 16-byte Uint8Array")
              /\ calls[i].random = << >>

\* C15, as stated: no call of any construction makes more than 128 AES
\* block encryptions
AtMost128AesPasses == \A i \in 1..Len(calls) : AesPasses(calls[i]) <= 128

\* C15: no call of any construction makes more than 256 AES block
\* encryptions; a call of pfx that returns makes 256 of them on a block
\* that is not mapped (128 iterations of two each) and 64 on a mapped one,
\* a call of another construction at most 2
AtMost256AesPasses ==
    \A i \in 1..Len(calls) :
        /\ AesPasses(calls[i]) <= 256
        /\ (calls[i].fn \in { "pfx.encrypt", "pfx.decrypt" } /\ calls[i].out.ok)
           => AesPasses(calls[i]) = IF MappedBlock(BlockOf(calls[i].input)) THEN 64 ELSE 256
        /\ calls[i].fn \notin { "pfx.encrypt", "pfx.decrypt" } => AesPasses(calls[i]) <= 2

\* pfx.encrypt has returned for a block that is not mapped, and pfx.decrypt
\* for what it returned
WholeBlockEncrypted ==
    \E i, j \in 1..Len(calls) :
        /\ Returns(i, "pfx.encrypt") /\ ~MappedBlock(BlockOf(calls[i].input))
        /\ Len(calls[i].states) = 129
        /\ Inverts(j, "pfx.decrypt", i) /\ calls[j].out.ok

\* the iterations of the loop of a call that wrote bit position k
WrittenBy(call, k) == { n \in 2..Len(call.states) : call.states[n].currentBitPos = k }

\* the block the loop of a call of pfx left
LoopResult(call) ==
    IF call.fn = "pfx.encrypt" THEN Last(call.states).encrypted
    ELSE Last(call.states).decrypted

\* every bit of the block a call of pfx on block returned is either one of
\* the 96 copied from a mapped block, and then written by no iteration, or
\* written by exactly one iteration
EveryBitDetermined(call, block) ==
    /\ call.states # << >>
    /\ LoopResult(call) \in Block
    /\ BlockOf(call.out.value) = LoopResult(call)
    /\ \A k \in 0..127 :
          IF MappedBlock(block) /\ k >= 32
          THEN /\ WrittenBy(call, k) = { }
               /\ SubSeq(LoopResult(call), 1, 12) = SubSeq(block, 1, 12)
          ELSE Cardinality(WrittenBy(call, k)) = 1

RegisterUsed(call, n) == call.states[n].paddedPrefix

\* the number of iterations of the loop of a call of pfx
Iterations(call) == Len(call.states) - 1

\* C18: when pfx.decrypt is run on what pfx.encrypt returned for a block b,
\* under the same key, and finds the ciphertext in the family of b (both
\* mapped or both not), its loop makes as many iterations as that of
\* encrypt and uses, at every iteration, the register value encrypt used
PlaintextFedForward ==
    \A i, j \in 1..Len(calls) :
        (/\ Returns(i, "pfx.encrypt") /\ Inverts(j, "pfx.decrypt", i)
         /\ MappedBlock(BlockOf(calls[i].input)) = MappedBlock(BlockOf(calls[j].input)))
        => /\ Iterations(calls[j]) = Iterations(calls[i])
           /\ \A n \in 1..Iterations(calls[i]) :
                  RegisterUsed(calls[j], n) = RegisterUsed(calls[i], n)

\* pfx.decrypt has run its 128 iterations on what pfx.encrypt returned for
\* 2001:db8::1, whose ciphertext differs from it in the first bit
FedForwardOnWholeBlock ==
    \E i, j \in 1..Len(calls) :
        /\ Returns(i, "pfx.encrypt") /\ calls[i].input = "2001:db8::1"
        /\ Inverts(j, "pfx.decrypt", i) /\ Iterations(calls[j]) = 128
        /\ BlockOf(calls[j].input)[1] >= 128

\* C19: on every mapped block pfx.encrypt and pfx.decrypt make exactly 32
\* iterations, the one for prefixLenBits = 96 + n writing bit position
\* 31 - n and no other, leave bytes 0..11 as they copied them from the
\* input, and return a mapped block
MappedHandling ==
    \A i \in 1..Len(calls) :
        (/\ calls[i].fn \in { "pfx.encrypt", "pfx.decrypt" } /\ calls[i].out.ok
         /\ MappedBlock(BlockOf(calls[i].input)))
        => /\ Iterations(calls[i]) = 32
           /\ \A n \in 0..31 : calls[i].states[n + 2].currentBitPos = 31 - n
           /\ \A n \in 1..33 :
                  SubSeq(IF calls[i].fn = "pfx.encrypt" THEN calls[i].states[n].encrypted
                         ELSE calls[i].states[n].decrypted, 1, 12)
                  = SubSeq(BlockOf(calls[i].input), 1, 12)
           /\ MappedBlock(BlockOf(calls[i].out.value))
           /\ BlockOf(calls[i].out.value) = LoopResult(calls[i])

\* pfx.encrypt has returned for the mapped block of 10.0.0.47, and
\* pfx.decrypt for what it returned
MappedEncryptedAndDecrypted ==
    \E i, j \in 1..Len(calls) :
        /\ Returns(i, "pfx.encrypt") /\ calls[i].input = "10.0.0.47"
        /\ Inverts(j, "pfx.decrypt", i) /\ calls[j].out.ok
        /\ MappedBlock(BlockOf(calls[j].input))

\* C20: none of the 128 register values pfx.encrypt feeds to AES on a block
\* that is not mapped is the register the loop starts from on a mapped one
StartRegisterSeparated ==
    \A i \in 1..Len(calls) :
        (Returns(i, "pfx.encrypt") /\ ~MappedBlock(BlockOf(calls[i].input)))
        => /\ Iterations(calls[i]) = 128
           /\ \A n \in 1..128 : RegisterUsed(calls[i], n) # padPrefix96

\* pfx.encrypt has returned for a block whose first 96 bits differ from the
\* mapped prefix in one bit: the register of its iteration 96 differs from
\* the start register of a mapped block in that bit only
NearlyMappedEncrypted ==
    \E i \in 1..Len(calls) :
        /\ Returns(i, "pfx.encrypt") /\ calls[i].input = NearlyMapped
        /\ RegisterUsed(calls[i], 97) = [padPrefix96 EXCEPT ![14] = 1]

\* the byte arrays the caller passed to a call, in the order key, tweak,
\* block or input; an address is a string and no array
CallerArrays(call) ==
    IF call.fn \in { "kiasu.encrypt", "kiasu.decrypt", "encryptBlockXts", "decryptBlockXts" }
    THEN << call.key, call.tweak.bytes, call.input >>
    ELSE IF call.fn \in { "nd.decrypt", "ndx.decrypt", "aesEncrypt" }
    THEN << call.key, call.input >>
    ELSE IF call.fn \in { "nd.encrypt", "ndx.encrypt" } /\ call.tweak.typeof = "Uint8Array"
    THEN << call.key, call.tweak.bytes >>
    ELSE << call.key >>

\* the functions that return a byte array
ReturnsArray(fn) ==
    fn \in { "kiasu.encrypt", "kiasu.decrypt", "encryptBlockXts", "decryptBlockXts",
             "nd.encrypt", "ndx.encrypt", "aesEncrypt" }

\* in the heap a call left, the arrays passed to it hold the bytes held,
\* and the array it returns, if any, is none of them
ArraysKept(call, arrays) ==
    /\ SubSeq(call.heap, 1, Len(arrays)) = arrays
    /\ call.returned \notin 1..Len(arrays)
    /\ (call.out.ok /\ ReturnsArray(call.fn))
       => /\ call.returned \in (Len(arrays) + 1)..Len(call.heap)
          /\ call.heap[call.returned] = call.out.value

\* C16: after every call, returning or throwing, the key, tweak and block
\* or input arrays of the caller hold the bytes they held before it, and
\* the array the call returns is a new one, none of the caller's
InputsKept == \A i \in 1..Len(calls) : ArraysKept(calls[i], CallerArrays(calls[i]))

\* kiasu-bc encrypt has returned a block that differs from the one it got,
\* and nd.encrypt has returned for a supplied tweak
ResultsInNewArrays ==
    \E i, j \in 1..Len(calls) :
        /\ Returns(i, "kiasu.encrypt") /\ calls[i].out.value # calls[i].input
        /\ calls[i].heap[3] = calls[i].input
        /\ Returns(j, "nd.encrypt") /\ calls[j].tweak = Uint8Array(Cut(8))
        /\ calls[j].heap[2] = Cut(8)

\* the prefix length of iteration n of the loop of a call of pfx: the loop
\* starts at 96 on a block isIPv4 accepts and at 0 otherwise
PrefixLenBits(call, n) == (IF isIPv4(BlockOf(call.input)) THEN 96 ELSE 0) + n - 1

\* the block whose bits the register of a call of pfx takes in: the address
\* encrypt is given, the block the loop of decrypt recovers
PlaintextOf(call) ==
    IF call.fn = "pfx.encrypt" THEN BlockOf(call.input) ELSE LoopResult(call)

\* register, read as a 128-bit integer, is 2^p + the top p bits of block:
\* nothing above the separator at position p, the p bits below it
SeparatedPrefix(register, block, p) ==
    /\ \A k \in 0..(126 - p) : BitAt(register, k) = 0
    /\ BitAt(register, 127 - p) = 1
    /\ \A k \in (128 - p)..127 : BitAt(register, k) = BitAt(block, k - (128 - p))

\* C21: at the start of the iteration for prefix length p of the loop of
\* pfx.encrypt and pfx.decrypt the register is 2^p + the top p bits of the
\* plaintext block, so that two iterations, of one call or of two, that see
\* the same register have the same p and the same p plaintext bits
RegisterInvariant ==
    \A i \in 1..Len(calls) :
        (calls[i].fn \in { "pfx.encrypt", "pfx.decrypt" } /\ calls[i].out.ok)
        => /\ \A n \in 1..Iterations(calls[i]) :
                  SeparatedPrefix(RegisterUsed(calls[i], n), PlaintextOf(calls[i]),
                                  PrefixLenBits(calls[i], n))
           /\ \A j \in i..Len(calls) :
                  (calls[j].fn \in { "pfx.encrypt", "pfx.decrypt" } /\ calls[j].out.ok)
                  => \A n \in 1..Iterations(calls[i]), m \in 1..Iterations(calls[j]) :
                         RegisterUsed(calls[i], n) = RegisterUsed(calls[j], m)
                         => /\ PrefixLenBits(calls[i], n) = PrefixLenBits(calls[j], m)
                            /\ AgreeOn(PlaintextOf(calls[i]), PlaintextOf(calls[j]), 0,
                                       PrefixLenBits(calls[i], n))

\* pfx.encrypt has run its 128 iterations on 2001:db8::2 and its 32 on
\* 10.0.0.47, and pfx.decrypt has run on a ciphertext: the registers of the
\* two encryptions at prefix length 96 differ
RegistersOfBothFamilies ==
    \E i, j \in 1..Len(calls) :
        /\ Returns(i, "pfx.encrypt") /\ calls[i].input = "2001:db8::2"
        /\ Iterations(calls[i]) = 128
        /\ Returns(j, "pfx.encrypt") /\ calls[j].input = "10.0.0.47"
        /\ Iterations(calls[j]) = 32
        /\ RegisterUsed(calls[i], 97) # RegisterUsed(calls[j], 1)
        /\ RegisterUsed(calls[i], 97)[4] = 1

\* bit n is the first bit, from the most significant one, in which blocks
\* a and b differ
FirstDifferAt(a, b, n) == AgreeOn(a, b, 0, n) /\ BitAt(a, n) # BitAt(b, n)

\* C22: under one key, two blocks of one family whose first differing bit,
\* counted from the most significant one, is bit n + 1 are encrypted by
\* pfx.encrypt to blocks that agree on their top n bits and differ in bit
\* n + 1: the common prefix of the outputs is exactly that of the inputs
ExactCommonPrefix ==
    \A i, j \in 1..Len(calls) :
        (/\ Returns(i, "pfx.encrypt") /\ Returns(j, "pfx.encrypt")
         /\ calls[i].key = calls[j].key
         /\ isIPv4(BlockOf(calls[i].input)) = isIPv4(BlockOf(calls[j].input)))
        => \A n \in 0..127 :
               FirstDifferAt(BlockOf(calls[i].input), BlockOf(calls[j].input), n)
               => /\ FirstDifferAt(LoopResult(calls[i]), LoopResult(calls[j]), n)
                  /\ FirstDifferAt(BlockOf(calls[i].out.value),
                                   BlockOf(calls[j].out.value), n)

\* 2001:db8::1 and 2001:db8::2, which differ first in bit 127 of 128, and
\* 10.0.0.47 and 10.0.0.129, which differ first in bit 121, have been
\* encrypted under one key
FirstDifferingBitEncrypted ==
    \E i, j \in 1..Len(calls) :
        /\ Returns(i, "pfx.encrypt") /\ Returns(j, "pfx.encrypt")
        /\ calls[i].key = calls[j].key
        /\ \/ /\ calls[i].input = "2001:db8::1" /\ calls[j].input = "2001:db8::2"
              /\ FirstDifferAt(LoopResult(calls[i]), LoopResult(calls[j]), 126)
           \/ /\ calls[i].input = "10.0.0.47" /\ calls[j].input = "10.0.0.129"
              /\ FirstDifferAt(LoopResult(calls[i]), LoopResult(calls[j]), 120)

\* C23: pfx.encrypt returns a mapped block exactly when it is given one,
\* and therefore never returns one block for two different blocks under
\* one key
PfxFamilyPreserved ==
    /\ \A i \in 1..Len(calls) :
           Returns(i, "pfx.encrypt")
           => (/\ isIPv4(LoopResult(calls[i])) = isIPv4(BlockOf(calls[i].input))
               /\ isIPv4(BlockOf(calls[i].out.value)) = isIPv4(BlockOf(calls[i].input)))
    /\ \A i, j \in 1..Len(calls) :
           (/\ Returns(i, "pfx.encrypt") /\ Returns(j, "pfx.encrypt")
            /\ calls[i].key = calls[j].key
            /\ calls[i].out.value = calls[j].out.value)
           => BlockOf(calls[i].input) = BlockOf(calls[j].input)

\* the part of C23 that the code keeps: on a mapped block pfx.encrypt
\* returns a mapped block
PfxMappedStaysMapped ==
    \A i \in 1..Len(calls) :
        (Returns(i, "pfx.encrypt") /\ isIPv4(BlockOf(calls[i].input)))
        => isIPv4(LoopResult(calls[i]))

\* the injectivity of C23 alone
PfxEncryptInjective ==
    \A i, j \in 1..Len(calls) :
        (/\ Returns(i, "pfx.encrypt") /\ Returns(j, "pfx.encrypt")
         /\ calls[i].key = calls[j].key
         /\ LoopResult(calls[i]) = LoopResult(calls[j]))
        => BlockOf(calls[i].input) = BlockOf(calls[j].input)

\* the 11 round keys of expandedKey, each XORed with paddedTweak
TweakedRoundKeys(expandedKey, paddedTweak) ==
    NewArray(176, LAMBDA i : Xor(expandedKey[i + 1], paddedTweak[(i % 16) + 1]))

\* C24: kiasu-bc encrypt and decrypt are the AES-128 round sequences of the
\* deterministic mode run with each of the 11 round keys replaced by its
\* XOR with the padded tweak; under the all-zero tweak kiasu-bc encrypt
\* returns, for every key and block, the block det.encrypt encrypts to
KiasuIsTweakedAes ==
    \A i \in 1..Len(calls) :
        /\ Returns(i, "kiasu.encrypt")
           => /\ calls[i].out.value
                 = DetEncryptRounds(TweakedRoundKeys(expandKey(calls[i].key),
                                                     padTweak(calls[i].tweak.bytes)),
                                    calls[i].input)
              /\ calls[i].tweak.bytes = Zeros(8)
                 => /\ calls[i].out.value
                       = DetEncryptRounds(expandKey(calls[i].key), calls[i].input)
                    /\ bytesToIp(calls[i].out.value)
                       = DetEncrypt(bytesToIp(calls[i].input).value, calls[i].key)
        /\ Returns(i, "kiasu.decrypt")
           => calls[i].out.value
              = DetDecryptRounds(TweakedRoundKeys(expandKey(calls[i].key),
                                                  padTweak(calls[i].tweak.bytes)),
                                 calls[i].input)

\* kiasu-bc has encrypted 2001:db8::1 under the all-zero tweak and under
\* another one, with different results, and has decrypted a ciphertext
\* made under a tweak that is not zero
KiasuZeroAndOtherTweak ==
    \E i, j \in 1..Len(calls) :
        /\ Returns(i, "kiasu.encrypt") /\ Returns(j, "kiasu.encrypt")
        /\ calls[i].key = calls[j].key /\ calls[i].input = calls[j].input
        /\ calls[i].input[1] = 32
        /\ calls[i].tweak.bytes = Zeros(8) /\ calls[j].tweak.bytes = Tweak8
        /\ calls[i].out.value # calls[j].out.value

\* C25: padTweak puts the tweak bytes 2k and 2k + 1 at the places 4k and
\* 4k + 1 of the 16-byte result, for k = 0 .. 3, and leaves the places
\* 4k + 2 and 4k + 3 (bytes 2, 3, 6, 7, 10, 11, 14 and 15) zero; two
\* different tweaks are padded to different blocks
PadTweakLayout ==
    /\ \A i \in 1..Len(calls) :
           Returns(i, "padTweak")
           => /\ Len(calls[i].out.value) = 16
              /\ \A k \in 0..3 :
                     /\ calls[i].out.value[4 * k + 1] = calls[i].input[2 * k + 1]
                     /\ calls[i].out.value[4 * k + 2] = calls[i].input[2 * k + 2]
                     /\ calls[i].out.value[4 * k + 3] = 0
                     /\ calls[i].out.value[4 * k + 4] = 0
    /\ \A i, j \in 1..Len(calls) :
           (/\ Returns(i, "padTweak") /\ Returns(j, "padTweak")
            /\ calls[i].out.value = calls[j].out.value)
           => calls[i].input = calls[j].input

\* padTweak has padded the test tweak 08e0c289bff23b7c, of which no byte is
\* zero, and, after it, a tweak whose last byte alone is set
TweakPadded ==
    \E i, j \in 1..Len(calls) :
        /\ Returns(i, "padTweak") /\ calls[i].input = Tweak8
        /\ calls[i].out.value[13] = 59 /\ calls[i].out.value[14] = 124
        /\ Returns(j, "padTweak") /\ calls[j].input = SetAt(Zeros(8), << 255 >>, 7)
        /\ calls[j].out.value[14] = 255

\* a step of AES-128: one of the four operations, forward or inverse, with
\* the round whose key addRoundKey takes
AesStep(op, inverse, round) == [op |-> op, inverse |-> inverse, round |-> round]

\* the state after a step
AfterStep(step, expandedKey, state) ==
    CASE step.op = "addRoundKey" -> XorBytes[state, RoundKey(expandedKey, step.round)]
      [] step.op = "subBytes" -> subBytes[state, step.inverse]
      [] step.op = "shiftRows" -> shiftRows[state, step.inverse]
      [] step.op = "mixColumns" -> mixColumns[state, step.inverse]

\* the order of encryption: the key of round 0; in rounds 1 .. 9 subBytes,
\* shiftRows, mixColumns and the round key; in round 10 subBytes, shiftRows
\* and the round key
EncryptSteps ==
    [k \in 1..40 |->
        IF k = 1 THEN AesStep("addRoundKey", FALSE, 0)
        ELSE IF k = 40 THEN AesStep("addRoundKey", FALSE, 10)
        ELSE IF k % 4 = 2 THEN AesStep("subBytes", FALSE, (k + 2) \div 4)
        ELSE IF k % 4 = 3 THEN AesStep("shiftRows", FALSE, (k + 2) \div 4)
        ELSE IF k % 4 = 0 THEN AesStep("mixColumns", FALSE, (k + 2) \div 4)
        ELSE AesStep("addRoundKey", FALSE, (k + 2) \div 4)]

\* the step that undoes a step: the same round key, the inverse operation
Undo(step) == IF step.op = "addRoundKey" THEN step ELSE [step EXCEPT !.inverse = TRUE]

\* the order of decryption: the steps of encryption, last first, each undone
DecryptSteps == [k \in 1..40 |-> Undo(EncryptSteps[41 - k])]

\* the states after each of the steps, run in their order on state
RunSteps(steps, expandedKey, state) ==
    IterateTrace(LAMBDA s, k : AfterStep(steps[k], expandedKey, s), Block, state,
                 1, Len(steps) + 1)

\* C26: det.encrypt runs AES-128 in the order of EncryptSteps; det.decrypt
\* takes the round keys 10 .. 0 with the inverse operations, inverse
\* mixColumns in rounds 9 .. 1, each of its steps undoing the matching step
\* of the encryption of what it returns
AesRoundStructure ==
    \A i \in 1..Len(calls) :
        /\ Returns(i, "det.encrypt")
           => calls[i].out
              = bytesToIp(Last(RunSteps(EncryptSteps, expandKey(calls[i].key),
                                        BlockOf(calls[i].input))))
        /\ Returns(i, "det.decrypt")
           => LET undone == RunSteps(DecryptSteps, expandKey(calls[i].key),
                                     BlockOf(calls[i].input))
                  done == RunSteps(EncryptSteps, expandKey(calls[i].key), Last(undone))
              IN  /\ calls[i].out = bytesToIp(Last(undone))
                  /\ Last(done) = BlockOf(calls[i].input)
                  /\ \A k \in 1..39 : undone[k] = done[40 - k]

\* det.encrypt has encrypted the block of appendix B of FIPS-197 under its
\* key, 2b7e151628aed2a6abf7158809cf4f3c, to the block given there, and
\* det.decrypt has decrypted a ciphertext
Fips197VectorEncrypted ==
    \E i, j \in 1..Len(calls) :
        /\ Returns(i, "det.encrypt") /\ calls[i].key = Key16B
        /\ calls[i].input = Fips197Plaintext
        /\ calls[i].out.value = "3925:841d:2dc:9fb:dc11:8597:196a:b32"
        /\ Returns(j, "det.decrypt")

\* the result of encryptBlockXts when each of its two encryptions is the
\* one aesEncrypt of ipcrypt-pfx.js makes: the tweak under the second half
\* of the key, the whitened block under the first
XtsByAesEncrypt(key, tweak, block) ==
    Let(Block,
        LAMBDA encryptedTweak :
            XorBytes[aesEncrypt(SubSeq(key, 1, 16), XorBytes[block, encryptedTweak]),
                     encryptedTweak],
        aesEncrypt(SubSeq(key, 17, 32), tweak))

\* C27: the AES-128 encryption is written four times, in det.encrypt, in
\* aesEncrypt of ipcrypt-pfx.js and twice in encryptBlockXts and
\* decryptBlockXts (for the tweak and for the block), and the four compute
\* one function of key and block
OneAesEncryption ==
    \A i \in 1..Len(calls) :
        /\ Returns(i, "det.encrypt")
           => calls[i].out = bytesToIp(aesEncrypt(calls[i].key, BlockOf(calls[i].input)))
        /\ Returns(i, "aesEncrypt")
           => /\ calls[i].out.value
                 = DetEncryptRounds(expandKey(calls[i].key), calls[i].input)
              /\ calls[i].out.value = XtsEncryptMask(expandKey(calls[i].key), calls[i].input)
              /\ calls[i].out.value = XtsDecryptMask(expandKey(calls[i].key), calls[i].input)
              /\ calls[i].out.value
                 = XtsEncryptRounds(expandKey(calls[i].key), calls[i].input)
        /\ Returns(i, "encryptBlockXts")
           => calls[i].out.value
              = XtsByAesEncrypt(calls[i].key, calls[i].tweak.bytes, calls[i].input)
        /\ Returns(i, "decryptBlockXts")
           => calls[i].input
              = XtsByAesEncrypt(calls[i].key, calls[i].tweak.bytes, calls[i].out.value)

\* aesEncrypt has encrypted 2001:db8::1 under the first half of the test
\* key and det.encrypt, after it, the same block under the same key, or
\* decryptBlockXts has decrypted what encryptBlockXts returned under a key
\* of two different halves
AesCopiesCalled ==
    \/ \E i, j \in 1..Len(calls) :
           /\ Returns(i, "aesEncrypt") /\ calls[i].key = Key16 /\ calls[i].input[1] = 32
           /\ Returns(j, "det.encrypt") /\ calls[j].key = Key16
           /\ calls[j].input = "2001:db8::1"
           /\ calls[j].out = bytesToIp(calls[i].out.value)
    \/ \E i, j \in 1..Len(calls) :
           /\ Returns(i, "encryptBlockXts") /\ calls[i].key = Key32
           /\ Inverts(j, "decryptBlockXts", i) /\ calls[j].out.ok
           /\ calls[j].out.value = calls[i].input

\* call i is one of fn under a 32-byte key whose two halves are equal
UnderEqualHalves(i, fn) ==
    /\ calls[i].fn = fn /\ Len(calls[i].key) = 32
    /\ HalvesEqual(SubSeq(calls[i].key, 1, 16), SubSeq(calls[i].key, 17, 32))

\* C28: ndx.encrypt, ndx.decrypt, encryptBlockXts and decryptBlockXts take
\* a 32-byte key whose halves are equal as any other key: a call with valid
\* arguments returns, and decryption of what encryption returned under
\* such a key gives the address resp. the block that was encrypted
NdxTakesEqualHalves ==
    \A i \in 1..Len(calls) :
        /\ UnderEqualHalves(i, "encryptBlockXts")
           => /\ calls[i].out.ok = (Len(calls[i].tweak.bytes) = 16 /\ Len(calls[i].input) = 16)
              /\ \A j \in 1..Len(calls) :
                     (/\ calls[i].out.ok /\ Inverts(j, "decryptBlockXts", i)
                      /\ calls[j].tweak = calls[i].tweak)
                     => calls[j].out = Ok(calls[i].input)
        /\ UnderEqualHalves(i, "decryptBlockXts")
           => calls[i].out.ok = (Len(calls[i].tweak.bytes) = 16 /\ Len(calls[i].input) = 16)
        /\ UnderEqualHalves(i, "ndx.encrypt")
           => /\ calls[i].out.ok
                 = (/\ Falsy(calls[i].tweak) \/ ~NotBytesOfLength(calls[i].tweak, 16)
                    /\ ipToBytes(calls[i].input).ok)
              /\ \A j \in 1..Len(calls) :
                     (calls[i].out.ok /\ Inverts(j, "ndx.decrypt", i))
                     => /\ calls[j].out.ok
                        /\ BlockOf(calls[j].out.value) = BlockOf(calls[i].input)
        /\ UnderEqualHalves(i, "ndx.decrypt")
           => calls[i].out.ok = (Len(calls[i].input) = 32)

\* under the key 0123..3210 0123..3210 encryptBlockXts has returned and
\* decryptBlockXts has given back the block, or ndx.encrypt has returned
\* for 2001:db8::1 and ndx.decrypt has given back the address
EqualHalvesRoundTrip ==
    \/ \E i, j \in 1..Len(calls) :
           /\ UnderEqualHalves(i, "encryptBlockXts") /\ calls[i].out.ok
           /\ Inverts(j, "decryptBlockXts", i) /\ calls[j].out = Ok(calls[i].input)
           /\ calls[i].out.value # calls[i].input
    \/ \E i, j \in 1..Len(calls) :
           /\ UnderEqualHalves(i, "ndx.encrypt") /\ calls[i].out.ok
           /\ Inverts(j, "ndx.decrypt", i) /\ calls[j].out = Ok("2001:db8::1")

\* C29: bytesToIp returns, for every 16-byte block, a string that
\* ipToBytes parses back to that block: the all-zero block, blocks with
\* runs of zero groups at the start, in the middle and at the end, printed
\* with '::', and mapped blocks, printed in dotted form
TextRoundTrip ==
    \A i \in 1..Len(calls) :
        calls[i].fn = "bytesToIp"
        => /\ calls[i].out.ok = (Len(calls[i].input) = 16)
           /\ calls[i].out.ok
              => /\ ipToBytes(calls[i].out.value) = Ok(calls[i].input)
                 /\ \A j \in 1..Len(calls) :
                        (calls[j].fn = "ipToBytes" /\ calls[j].input = calls[i].out.value)
                        => calls[j].out = Ok(calls[i].input)

\* ipToBytes has parsed what bytesToIp returned for a block with a run of
\* two zero groups at its start and one of three at its end, which is
\* printed with one '::', for the longer run
TextParsedBack ==
    \E i, j \in 1..Len(calls) :
        /\ Returns(i, "bytesToIp") /\ calls[i].out.value = "0:0:1:ff00:a::"
        /\ Inverts(j, "ipToBytes", i) /\ calls[j].out = Ok(calls[i].input)
        /\ calls[i].input[6] = 1 /\ calls[i].input[10] = 10

\* twice the number the bytes i .. of x hold, most significant byte first:
\* its bytes and the carry out of byte i, by doubling byte after byte from
\* the last one up
RECURSIVE Doubled(_, _)
Doubled(x, i) ==
    IF i > Len(x) THEN [bytes |-> << >>, carry |-> 0]
    ELSE LET low == Doubled(x, i + 1)
         IN  [bytes |-> << (2 * x[i] + low.carry) % 256 >> \o low.bytes,
              carry |-> (2 * x[i] + low.carry) \div 256]

\* C30: shiftLeftOneBit(x) is (2x) mod 2^128 on the 128-bit number x holds:
\* every bit moves up one place, across the bytes, the top bit is dropped
\* and bit 0 is 0; the result is a new array and x keeps its bytes; a
\* setBit(result, 0, v) then writes bit 0 of that array and no other bit
ShiftDoubles ==
    \A i \in 1..Len(calls) :
        /\ calls[i].fn = "shiftLeftOneBit"
           => /\ calls[i].out = Ok(Doubled(calls[i].input, 1).bytes)
              /\ BitAt(calls[i].out.value, 127) = 0
              /\ \A k \in 0..126 : BitAt(calls[i].out.value, k) = BitAt(calls[i].input, k + 1)
              /\ calls[i].heap = << calls[i].input, calls[i].out.value >>
              /\ calls[i].returned = 2
        /\ (calls[i].fn = "setBit" /\ calls[i].input.position = 0)
           => /\ \A k \in 0..126 :
                     BitAt(calls[i].out.value, k) = BitAt(calls[i].input.data, k)
              /\ BitAt(calls[i].out.value, 127) = calls[i].input.value
              /\ calls[i].heap = << calls[i].out.value >>

\* shiftLeftOneBit has shifted a register of 128 ones, where every byte
\* hands a carry to the next and the top bit is lost, and setBit has set
\* bit 0 of the result
OnesShifted ==
    \E i, j \in 1..Len(calls) :
        /\ Returns(i, "shiftLeftOneBit") /\ calls[i].input = Repeat(255, 16) \o << >>
        /\ calls[i].out.value = [calls[i].input EXCEPT ![16] = 254]
        /\ calls[j].fn = "setBit" /\ calls[j].input.data = calls[i].out.value
        /\ calls[j].input.value = 1 /\ calls[j].out.value = calls[i].input
====
